---- MODULE Spec2Model ----
(***************************************************************************)
(* Model of docker-yaml-editor.js: the bundled YAML parser, the Docker     *)
(* Compose validator, the autocomplete context resolver and the editor's   *)
(* validity bookkeeping.                                                   *)
(*                                                                         *)
(* Text representation.  A JavaScript string is a sequence of atoms.  An   *)
(* atom is either one of the single characters the code inspects (space,   *)
(* tab, '-', ':', '#', '"', "'") or a word: a maximal run of other         *)
(* characters ("services", "80", "[]", "|").  Two words are never          *)
(* adjacent, so equality of atom sequences is equality of the strings.     *)
(* A text is the sequence of its lines, i.e. text.split('\n').             *)
(***************************************************************************)
EXTENDS Integers, Sequences, FiniteSets, TLC

VARIABLES
    text,       \* the input: the lines of the document (text.split('\n'))
    pc,         \* position of the analysis of text
    lineIdx,    \* YamlParser.parse: loop variable lineIdx (0-based)
    stack,      \* YamlParser.parse: stack of {indent, obj}; obj is a path into result
    result,     \* YamlParser.parse: result, the tree under construction
    errors,     \* YamlParser.parse: errors
    indentUnit, \* YamlParser.parse: indentUnit
    lastIndent, \* YamlParser.parse: lastIndent
    verrors,    \* DockerComposeValidator.validate: the list it returned
    reparsed,   \* YamlParser.parse(YamlParser.stringify(result))
    cursorLine, \* AutocompleteEngine.getContext: argument cursorLine (1-based)
    cursorContext, \* AutocompleteEngine.getContext: the context it returned
    editorValue,    \* DockerYamlEditor: this._value
    textarea,       \* DockerYamlEditor: this._textarea.value
    selectionStart, \* DockerYamlEditor: this._textarea.selectionStart
    selectionEnd,   \* DockerYamlEditor: this._textarea.selectionEnd
    isValid,        \* DockerYamlEditor: this._isValid
    editorErrors,   \* DockerYamlEditor: this._errors
    parseErrors,    \* DockerYamlEditor: this._parseErrors
    autocompleteVisible, \* DockerYamlEditor: this._autocompleteVisible
    autocompleteItems,   \* DockerYamlEditor: this._autocompleteItems
    autocompleteIndex,   \* DockerYamlEditor: this._autocompleteIndex
    timers,         \* DockerYamlEditor: pending setTimeout callbacks of _handleKeyDown
    emitted,        \* DockerYamlEditor: the events _emit delivered in the last _validate and after it
    cursorCol,   \* AutocompleteEngine.getSuggestions: argument cursorCol
    typed,       \* AutocompleteEngine.getSuggestions: typed, the fragment at the cursor
    candidates,  \* AutocompleteEngine.getSuggestions: suggestions before filtering
    suggestions  \* AutocompleteEngine.getSuggestions: the list it returned

\* The autocomplete popup apart from its visibility, and the pending timers
popupVars == <<autocompleteItems, autocompleteIndex, timers>>

\* The variables of the editor object
editorVars == <<editorValue, textarea, selectionStart, selectionEnd, isValid,
                editorErrors, parseErrors, autocompleteVisible, popupVars, emitted>>

\* The variables of one analysis of a text
analysisVars == <<text, pc, lineIdx, stack, result, errors, indentUnit, lastIndent,
                  verrors, reparsed, cursorLine, cursorContext>>

\* The variables of one call of getSuggestions
suggestVars == <<cursorCol, typed, candidates, suggestions>>

vars == <<analysisVars, editorVars, suggestVars>>

-----------------------------------------------------------------------------
(* Strings *)

SP == " "
TAB == "\t"
DASH == "-"
COLON == ":"
HASH == "#"
DQ == "\""
SQ == "'"

IsWs(a) == a = SP \/ a = TAB

\* s.slice(from) and s.slice(0, to) on 0-based offsets counted in atoms
Drop(s, n) == IF n >= Len(s) THEN <<>> ELSE SubSeq(s, n + 1, Len(s))
Take(s, n) == IF n <= 0 THEN <<>> ELSE SubSeq(s, 1, IF n > Len(s) THEN Len(s) ELSE n)

RECURSIVE LTrim(_)
LTrim(s) == IF s # <<>> /\ IsWs(Head(s)) THEN LTrim(Tail(s)) ELSE s

RECURSIVE RTrim(_)
RTrim(s) == IF s # <<>> /\ IsWs(s[Len(s)]) THEN RTrim(Take(s, Len(s) - 1)) ELSE s

\* String.prototype.trim
Trim(s) == RTrim(LTrim(s))

\* s.search(/\S/): offset of the first non-blank character, -1 if there is none.
\* Every atom before it is a one-character blank, so atoms and characters agree.
SearchNonWs(s) == IF LTrim(s) = <<>> THEN -1 ELSE Len(s) - Len(LTrim(s))

\* s.length of a line consisting of blanks only
BlankLen(s) == Len(s)

StartsWith(s, p) == Len(s) >= Len(p) /\ Take(s, Len(p)) = p
EndsWith(s, p) == Len(s) >= Len(p) /\ Drop(s, Len(s) - Len(p)) = p

\* s.indexOf(c) for a one-atom character c, 0-based offset in atoms, -1 if absent
IndexOf(s, c) ==
    IF \E i \in 1..Len(s) : s[i] = c
    THEN (CHOOSE i \in 1..Len(s) : s[i] = c /\ \A j \in 1..(i - 1) : s[j] # c) - 1
    ELSE -1

Includes(s, c) == \E i \in 1..Len(s) : s[i] = c

-----------------------------------------------------------------------------
(* JavaScript values.  Every value is a record of one shape:               *)
(*   t  : "str", "num", "bool", "null", "undef", "obj" or "arr"            *)
(*   s  : the text of a scalar (a number in its canonical spelling)        *)
(*   ks : own property names, in Object.keys order                         *)
(*   vs : own property values, aligned with ks                             *)
(*   it : the elements of an array                                         *)

Scalar(t, s) == [t |-> t, s |-> s, ks |-> <<>>, vs |-> <<>>, it |-> <<>>]
Str(s) == Scalar("str", s)
Num(w) == Scalar("num", <<w>>)
NegNum(w) == Scalar("num", <<DASH, w>>)
Bool(b) == Scalar("bool", IF b THEN <<"true">> ELSE <<"false">>)
Null == Scalar("null", <<>>)
Undef == Scalar("undef", <<>>)
EmptyObj == Scalar("obj", <<>>)
EmptyArr == Scalar("arr", <<>>)

IsObjectType(v) == v.t \in {"obj", "arr", "null"}       \* typeof v === 'object'
IsArray(v) == v.t = "arr"                                \* Array.isArray(v)

\* Digit words of the alphabet: the spelling, its value and its canonical
\* spelling (parseInt(w, 10).toString()).
IntWords == {"0", "1", "2", "3", "4", "5", "6", "7", "8", "9", "007"}
IntValue(w) == CASE w = "0" -> 0 [] w = "1" -> 1 [] w = "2" -> 2 [] w = "3" -> 3
                 [] w = "4" -> 4 [] w = "5" -> 5 [] w = "6" -> 6 [] w = "7" -> 7
                 [] w = "8" -> 8 [] w = "9" -> 9 [] w = "007" -> 7 [] OTHER -> 0
IntCanon(w) == IF w = "007" THEN "7" ELSE w
\* Decimal words: parseFloat(w).toString()
FloatWords == {"3.8", "9.9", "3.0", "1.50"}
FloatCanon(w) == CASE w = "3.0" -> "3" [] w = "1.50" -> "1.5" [] OTHER -> w

\* An array index: a canonical non-negative integer spelling used as a key
IsIndexKey(k) == Len(k) = 1 /\ k[1] \in IntWords /\ IntCanon(k[1]) = k[1]
IndexOfKey(k) == IntValue(k[1])

\* Truthiness (the validator tests values with !x and x && ...)
Truthy(v) ==
    CASE v.t \in {"null", "undef"} -> FALSE
      [] v.t = "bool" -> v.s = <<"true">>
      [] v.t = "num" -> v.s # <<"0">>
      [] v.t = "str" -> v.s # <<>>
      [] OTHER -> TRUE

\* Position of key k among the own properties, 0 if absent
KeyPos(v, k) ==
    IF \E i \in 1..Len(v.ks) : v.ks[i] = k
    THEN CHOOSE i \in 1..Len(v.ks) : v.ks[i] = k
    ELSE 0

\* Where a new own property k goes in Object.keys order: integer-like keys come
\* first in ascending order, all other keys follow in insertion order.
InsertPos(ks, k) ==
    IF IsIndexKey(k)
    THEN Cardinality({i \in 1..Len(ks) :
                        IsIndexKey(ks[i]) /\ IndexOfKey(ks[i]) < IndexOfKey(k)}) + 1
    ELSE Len(ks) + 1

InsertAt(s, i, e) == Take(s, i - 1) \o <<e>> \o Drop(s, i - 1)

\* obj[k] = val on a plain object
ObjSet(v, k, val) ==
    IF KeyPos(v, k) > 0
    THEN [v EXCEPT !.vs[KeyPos(v, k)] = val]
    ELSE [v EXCEPT !.ks = InsertAt(v.ks, InsertPos(v.ks, k), k),
                   !.vs = InsertAt(v.vs, InsertPos(v.ks, k), val)]

\* Number(val), as far as an array length needs it: the value if val converts
\* to a valid array length, -1 if the assignment raises a RangeError
ToLength(val) ==
    CASE val.t = "null" -> 0
      [] val.t = "bool" -> IF val.s = <<"true">> THEN 1 ELSE 0
      [] val.t = "num" -> IF Len(val.s) = 1 /\ val.s[1] \in IntWords
                          THEN IntValue(val.s[1]) ELSE -1
      [] val.t = "str" -> IF val.s = <<>> THEN 0
                          ELSE IF Len(val.s) = 1 /\ val.s[1] \in IntWords
                               THEN IntValue(val.s[1]) ELSE -1
      [] val.t = "arr" -> IF val.it = <<>> THEN 0 ELSE -1
      [] OTHER -> -1

LengthKey == <<"length">>

\* arr.length = n
Resize(items, n) ==
    IF n <= Len(items) THEN Take(items, n)
    ELSE items \o [i \in 1..(n - Len(items)) |-> Undef]

\* Does target[k] = val throw?  In strict mode a property assignment throws on
\* a primitive target (TypeError) and on an invalid array length (RangeError).
SetThrows(target, k, val) ==
    \/ ~(target.t \in {"obj", "arr"})
    \/ target.t = "arr" /\ k = LengthKey /\ ToLength(val) < 0

\* target[k] = val, for a target and key on which it does not throw
SetProp(target, k, val) ==
    IF target.t = "arr"
    THEN IF k = LengthKey
         THEN [target EXCEPT !.it = Resize(target.it, ToLength(val))]
         ELSE IF IsIndexKey(k)
              THEN [target EXCEPT !.it =
                      [i \in 1..(IF IndexOfKey(k) + 1 > Len(target.it)
                                 THEN IndexOfKey(k) + 1 ELSE Len(target.it)) |->
                          IF i = IndexOfKey(k) + 1 THEN val
                          ELSE IF i <= Len(target.it) THEN target.it[i] ELSE Undef]]
              ELSE ObjSet(target, k, val)
    ELSE ObjSet(target, k, val)

\* The decimal spelling of a small number
NumWord(n) == CASE n = 0 -> "0" [] n = 1 -> "1" [] n = 2 -> "2" [] n = 3 -> "3"
                [] n = 4 -> "4" [] n = 5 -> "5" [] n = 6 -> "6" [] n = 7 -> "7"
                [] n = 8 -> "8" [] OTHER -> "9"

\* target[k]: own property, array element or array length; undefined otherwise
GetProp(target, k) ==
    IF target.t = "arr" /\ k = LengthKey THEN Num(NumWord(Len(target.it)))
    ELSE IF target.t = "arr" /\ IsIndexKey(k)
         THEN IF IndexOfKey(k) + 1 <= Len(target.it)
              THEN target.it[IndexOfKey(k) + 1] ELSE Undef
         ELSE IF target.t \in {"obj", "arr"} /\ KeyPos(target, k) > 0
              THEN target.vs[KeyPos(target, k)] ELSE Undef

\* Object.keys(v): indices of the present elements, then the own property names
RECURSIVE ItemKeys(_, _)
ItemKeys(items, i) ==
    IF i > Len(items) THEN <<>>
    ELSE (IF items[i].t = "undef" THEN <<>> ELSE << <<NumWord(i - 1)>> >>)
         \o ItemKeys(items, i + 1)

ObjectKeys(v) == IF v.t = "arr" THEN ItemKeys(v.it, 1) \o v.ks
                 ELSE IF v.t = "obj" THEN v.ks ELSE <<>>

\* A path names a value inside the tree: the property names to follow from
\* the root.  The parser's stack frames hold such paths where the code holds
\* object references; a frame's object is always reached from the root by
\* the keys and indices under which it was stored.
RECURSIVE GetPath(_, _)
GetPath(v, path) ==
    IF path = <<>> THEN v ELSE GetPath(GetProp(v, Head(path)), Tail(path))

\* The tree with the value at path replaced by val
RECURSIVE PutPath(_, _, _)
PutPath(v, path, val) ==
    IF path = <<>> THEN val
    ELSE SetProp(v, Head(path), PutPath(GetProp(v, Head(path)), Tail(path), val))

-----------------------------------------------------------------------------
(* Diagnostics.  A diagnostic is a record of one shape; message is the     *)
(* fixed part of the code's message text, key and ctx the names it         *)
(* interpolates, a and b the numbers it interpolates, and the               *)
(* validKeys / validValues lists it carries (empty if none).  A diagnostic  *)
(* pushed without a severity property has severity "".                     *)

Diag(line, column, message, severity) ==
    [line |-> line, column |-> column, message |-> message, severity |-> severity,
     key |-> <<>>, ctx |-> <<>>, a |-> 0, b |-> 0,
     validKeys |-> <<>>, validValues |-> <<>>]

\* Offset in characters of the last c of s (what lastIndexOf would give)
RECURSIVE CharsBeforeLast(_, _)
CharsBeforeLast(s, c) ==
    IF s = <<>> THEN 0
    ELSE IF \E i \in 2..Len(s) : s[i] = c
         THEN Len(Head(s)) + CharsBeforeLast(Tail(s), c)
         ELSE IF Head(s) = c THEN 0 ELSE Len(Head(s)) + CharsBeforeLast(Tail(s), c)

\* Offset in characters of the first tab of a line (line.indexOf('\t'))
RECURSIVE CharsBefore(_, _)
CharsBefore(s, c) ==
    IF s = <<>> \/ Head(s) = c THEN 0 ELSE Len(Head(s)) + CharsBefore(Tail(s), c)

-----------------------------------------------------------------------------
(* YamlParser *)

BlockMarkers == {<<>>, <<"|">>, <<">">>, <<"|", DASH>>, <<">", DASH>>}

IsQuoted(s) == \/ StartsWith(s, <<DQ>>) /\ EndsWith(s, <<DQ>>)
               \/ StartsWith(s, <<SQ>>) /\ EndsWith(s, <<SQ>>)

\* YamlParser.parseValue
parseValue(str) ==
    CASE str \in {<<"true">>, <<"True">>, <<"TRUE">>} -> Bool(TRUE)
      [] str \in {<<"false">>, <<"False">>, <<"FALSE">>} -> Bool(FALSE)
      [] str \in {<<"null">>, <<"Null">>, <<"NULL">>, <<"~">>} -> Null
      [] Len(str) = 1 /\ str[1] \in IntWords -> Num(IntCanon(str[1]))
      [] Len(str) = 2 /\ str[1] = DASH /\ str[2] \in IntWords ->
            IF IntCanon(str[2]) = "0" THEN Num("0") ELSE NegNum(IntCanon(str[2]))
      [] Len(str) = 1 /\ str[1] \in FloatWords -> Num(FloatCanon(str[1]))
      [] Len(str) = 2 /\ str[1] = DASH /\ str[2] \in FloatWords ->
            NegNum(FloatCanon(str[2]))
      [] IsQuoted(str) -> Str(Take(Drop(str, 1), Len(str) - 2))
      [] OTHER -> Str(str)

\* A line the parser skips: empty after trim, or a comment
IsSkipped(line) == Trim(line) = <<>> \/ StartsWith(Trim(line), <<HASH>>)

\* A lookahead that takes the line at i whatever it holds, 0 past the end
NextLine(lines, i) == IF i > Len(lines) THEN 0 ELSE i

\* The lookahead of parse (lines 144-153): index of the next line at or after
\* i that is not skipped, 0 if there is none
RECURSIVE NextContent(_, _)
NextContent(lines, i) ==
    IF i > Len(lines) THEN 0
    ELSE IF IsSkipped(lines[i]) THEN NextContent(lines, i + 1) ELSE i

\* A pop that keeps a frame whose indent equals the indent of the line
RECURSIVE PopStackAbove(_, _)
PopStackAbove(stk, indent) ==
    IF Len(stk) > 1 /\ stk[Len(stk)].indent > indent
    THEN PopStackAbove(Take(stk, Len(stk) - 1), indent)
    ELSE stk

\* The while loop of parse (lines 70-72)
RECURSIVE PopStack(_, _)
PopStack(stk, indent) ==
    IF Len(stk) > 1 /\ stk[Len(stk)].indent >= indent
    THEN PopStack(Take(stk, Len(stk) - 1), indent)
    ELSE stk

Frame(indent, path) == [indent |-> indent, path |-> path]

\* The state of one run of parse: stack, result, errors, indentUnit, lastIndent,
\* and whether an exception has left the function
ParseStart ==
    [stack |-> <<Frame(-1, <<>>)>>, result |-> EmptyObj, errors |-> <<>>,
     indentUnit |-> 0, lastIndent |-> 0, threw |-> FALSE]

\* IndentErrors with the second check chained to the first by "else if"
IndentErrorsElseIf(lineNum, indent, unit, last) ==
    IF unit > 0 /\ indent > 0
    THEN IF indent % unit # 0
         THEN <<[Diag(lineNum, 1, "Inconsistent indentation", "error")
                   EXCEPT !.a = unit, !.b = indent]>>
         ELSE IF indent > last + unit /\ last >= 0
         THEN <<[Diag(lineNum, 1, "Indentation increased", "error")
                   EXCEPT !.a = indent - last, !.b = unit]>>
         ELSE <<>>
    ELSE <<>>

\* IndentErrors without the check for a multiple of the unit
IndentErrorsJumpOnly(lineNum, indent, unit, last) ==
    IF unit > 0 /\ indent > 0 /\ indent > last + unit /\ last >= 0
    THEN <<[Diag(lineNum, 1, "Indentation increased", "error")
              EXCEPT !.a = indent - last, !.b = unit]>>
    ELSE <<>>

\* The indentation check of parse (lines 45-65): the diagnostics it pushes.
\* unit is indentUnit after line 43.
IndentErrors(lineNum, indent, unit, last) ==
    IF unit > 0 /\ indent > 0
    THEN (IF indent % unit # 0
          THEN <<[Diag(lineNum, 1, "Inconsistent indentation", "error")
                    EXCEPT !.a = unit, !.b = indent]>>
          ELSE <<>>)
         \o
         (IF indent > last + unit /\ last >= 0
          THEN <<[Diag(lineNum, 1, "Indentation increased", "error")
                    EXCEPT !.a = indent - last, !.b = unit]>>
          ELSE <<>>)
    ELSE <<>>

\* target.push(val) for the array at path
ArrAppend(tree, path, val) ==
    PutPath(tree, path, [GetPath(tree, path) EXCEPT !.it = Append(@, val)])

\* The list-item branch of parse (lines 88-125) for an array target.
\* ps already holds the popped stack and the diagnostics of the line.
ListItem(ps, indent, trimmed, tpath) ==
    LET value == Trim(Drop(trimmed, 2))
        target == GetPath(ps.result, tpath)
        ipath == tpath \o << <<NumWord(Len(target.it))>> >>
        colonIdx == IndexOf(value, COLON)
        key == Trim(Take(value, colonIdx))
        val == Trim(Drop(value, colonIdx + 1))
    IN  IF value = <<>> \/ (~IsQuoted(value) /\ Includes(value, COLON))
        THEN IF value = <<>>
             THEN [ps EXCEPT !.result = ArrAppend(ps.result, tpath, EmptyObj),
                             !.stack = Append(ps.stack, Frame(indent, ipath))]
             ELSE IF val = <<>>
                  THEN [ps EXCEPT
                          !.result = ArrAppend(ps.result, tpath,
                                               ObjSet(EmptyObj, key, EmptyObj)),
                          !.stack = Append(ps.stack, Frame(indent, ipath \o <<key>>))]
                  ELSE [ps EXCEPT
                          !.result = ArrAppend(ps.result, tpath,
                                               ObjSet(EmptyObj, key, parseValue(val)))]
        ELSE [ps EXCEPT !.result = ArrAppend(ps.result, tpath, parseValue(value))]

\* target[key] = val inside parse: the assignment, or the exception it raises
Assign(ps, tpath, key, val) ==
    IF SetThrows(GetPath(ps.result, tpath), key, val)
    THEN [ps EXCEPT !.threw = TRUE]
    ELSE [ps EXCEPT !.result =
            PutPath(ps.result, tpath, SetProp(GetPath(ps.result, tpath), key, val))]

\* The key: value branch of parse (lines 138-179)
KeyValue(ps, lines, idx, lineNum, indent, trimmed, tpath) ==
    LET colonIdx == IndexOf(trimmed, COLON)
        key == Trim(Take(trimmed, colonIdx))
        valueStr == Trim(Drop(trimmed, colonIdx + 1))
        nxt == NextContent(lines, idx + 2)
        nextIndent == IF nxt = 0 THEN -1 ELSE SearchNonWs(lines[nxt])
        nextIsArray == nxt # 0 /\ StartsWith(Trim(lines[nxt]), <<DASH>>)
        opened == Assign(ps, tpath, key, IF nextIsArray THEN EmptyArr ELSE EmptyObj)
    IN  IF colonIdx > 0
        THEN IF valueStr \in BlockMarkers
             THEN IF nextIndent > indent
                  THEN IF opened.threw THEN opened
                       ELSE [opened EXCEPT
                               !.stack = Append(@, Frame(indent, tpath \o <<key>>))]
                  ELSE Assign(ps, tpath, key, IF valueStr = <<>> THEN Null ELSE Str(<<>>))
             ELSE IF valueStr = <<"[]">> THEN Assign(ps, tpath, key, EmptyArr)
             ELSE IF valueStr = <<"{}">> THEN Assign(ps, tpath, key, EmptyObj)
             ELSE Assign(ps, tpath, key, parseValue(valueStr))
        ELSE IF colonIdx = -1 /\ ~StartsWith(trimmed, <<DASH>>)
             THEN [ps EXCEPT !.errors =
                     Append(@, Diag(lineNum, 1, "Invalid YAML syntax", ""))]
             ELSE ps

\* One iteration of the for loop of parse (lines 23-180), for lines[idx + 1]
ParseLine(ps, lines, idx) ==
    LET line == lines[idx + 1]
        lineNum == idx + 1
        trimmed == Trim(line)
        indent == SearchNonWs(line)
        tabErr == IF Includes(line, TAB)
                  THEN <<Diag(lineNum, CharsBefore(line, TAB) + 1,
                              "Tabs are not allowed", "error")>>
                  ELSE <<>>
        unit == IF indent > 0 /\ ps.indentUnit = 0 THEN indent ELSE ps.indentUnit
        stk == PopStack(ps.stack, indent)
        tpath == stk[Len(stk)].path
        target == GetPath(ps.result, tpath)
        parentErr == IF StartsWith(trimmed, <<DASH>>) /\ ~IsArray(target)
                     THEN <<Diag(lineNum, 1, "List item found but parent is not a list",
                                 "error")>>
                     ELSE <<>>
        ps1 == [ps EXCEPT
                  !.errors = @ \o tabErr
                             \o IndentErrors(lineNum, indent, unit, ps.lastIndent)
                             \o parentErr,
                  !.indentUnit = unit,
                  !.lastIndent = indent,
                  !.stack = stk]
    IN  IF IsSkipped(line) THEN ps
        ELSE IF StartsWith(trimmed, <<DASH, SP>>)
             THEN IF ~IsArray(target) THEN ps1
                  ELSE ListItem(ps1, indent, trimmed, tpath)
        ELSE IF trimmed = <<DASH>>
             THEN IF IsArray(target)
                  THEN [ps1 EXCEPT
                          !.result = ArrAppend(ps1.result, tpath, EmptyObj),
                          !.stack = Append(@, Frame(indent,
                                     tpath \o << <<NumWord(Len(target.it))>> >>))]
                  ELSE ps1
        ELSE KeyValue(ps1, lines, idx, lineNum, indent, trimmed, tpath)

\* YamlParser.parse: the for loop from line index idx on; an exception ends it
RECURSIVE ParseFrom(_, _, _)
ParseFrom(ps, lines, idx) ==
    IF idx >= Len(lines) \/ ps.threw THEN ps
    ELSE ParseFrom(ParseLine(ps, lines, idx), lines, idx + 1)

parse(lines) == ParseFrom(ParseStart, lines, 0)

-----------------------------------------------------------------------------
(* DockerComposeSchema (lines 249-828).  Of each schema node the model     *)
(* keeps what the validator and the autocomplete engine read: values and   *)
(* children (ckeys and cvals, aligned, in declaration order).              *)

DockerComposeSchema ==
  [hasValues |-> FALSE, values |-> <<>>, hasChildren |-> FALSE, ckeys |-> <<<<"version">>,
     <<"services">>, <<"networks">>, <<"volumes">>, <<"configs">>, <<"secrets">>, <<"x">>>>,
     cvals |-> <<
    [hasValues |-> TRUE, values |-> <<<<"3">>, <<"3.0">>, <<"3.1">>, <<"3.2">>, <<"3.3">>,
       <<"3.4">>, <<"3.5">>, <<"3.6">>, <<"3.7">>, <<"3.8">>, <<"3.9">>>>,
       hasChildren |-> FALSE, ckeys |-> <<>>, cvals |-> <<>>],
    [hasValues |-> FALSE, values |-> <<>>, hasChildren |-> TRUE, ckeys |-> <<<<"*">>>>,
       cvals |-> <<
      [hasValues |-> FALSE, values |-> <<>>, hasChildren |-> TRUE, ckeys |-> <<<<"image">>,
         <<"build">>, <<"command">>, <<"entrypoint">>, <<"container_name">>, <<"depends_on">>,
         <<"deploy">>, <<"dns">>, <<"dns_search">>, <<"environment">>, <<"env_file">>,
         <<"expose">>, <<"external_links">>, <<"extra_hosts">>, <<"healthcheck">>,
         <<"hostname">>, <<"init">>, <<"labels">>, <<"links">>, <<"logging">>,
         <<"network_mode">>, <<"networks">>, <<"pid">>, <<"ports">>, <<"privileged">>,
         <<"read_only">>, <<"restart">>, <<"secrets">>, <<"security_opt">>, <<"shm_size">>,
         <<"stdin_open">>, <<"stop_grace_period">>, <<"stop_signal">>, <<"sysctls">>,
         <<"tmpfs">>, <<"tty">>, <<"ulimits">>, <<"user">>, <<"userns_mode">>, <<"volumes">>,
         <<"working_dir">>, <<"configs">>, <<"cap_add">>, <<"cap_drop">>, <<"cgroup_parent">>,
         <<"devices">>, <<"domainname">>, <<"ipc">>, <<"isolation">>, <<"mac_address">>,
         <<"platform">>, <<"profiles">>, <<"pull_policy">>, <<"runtime">>, <<"scale">>,
         <<"storage_opt">>>>, cvals |-> <<
        [hasValues |-> FALSE, values |-> <<>>, hasChildren |-> FALSE, ckeys |-> <<>>,
           cvals |-> <<>>],
        [hasValues |-> FALSE, values |-> <<>>, hasChildren |-> TRUE, ckeys |-> <<<<"context">>,
           <<"dockerfile">>, <<"args">>, <<"cache_from">>, <<"labels">>, <<"network">>,
           <<"shm_size">>, <<"target">>>>, cvals |-> <<
          [hasValues |-> FALSE, values |-> <<>>, hasChildren |-> FALSE, ckeys |-> <<>>,
             cvals |-> <<>>],
          [hasValues |-> FALSE, values |-> <<>>, hasChildren |-> FALSE, ckeys |-> <<>>,
             cvals |-> <<>>],
          [hasValues |-> FALSE, values |-> <<>>, hasChildren |-> FALSE, ckeys |-> <<>>,
             cvals |-> <<>>],
          [hasValues |-> FALSE, values |-> <<>>, hasChildren |-> FALSE, ckeys |-> <<>>,
             cvals |-> <<>>],
          [hasValues |-> FALSE, values |-> <<>>, hasChildren |-> FALSE, ckeys |-> <<>>,
             cvals |-> <<>>],
          [hasValues |-> TRUE, values |-> <<<<"host">>, <<"none">>, <<"default">>>>,
             hasChildren |-> FALSE, ckeys |-> <<>>, cvals |-> <<>>],
          [hasValues |-> FALSE, values |-> <<>>, hasChildren |-> FALSE, ckeys |-> <<>>,
             cvals |-> <<>>],
          [hasValues |-> FALSE, values |-> <<>>, hasChildren |-> FALSE, ckeys |-> <<>>,
             cvals |-> <<>>]>>],
        [hasValues |-> FALSE, values |-> <<>>, hasChildren |-> FALSE, ckeys |-> <<>>,
           cvals |-> <<>>],
        [hasValues |-> FALSE, values |-> <<>>, hasChildren |-> FALSE, ckeys |-> <<>>,
           cvals |-> <<>>],
        [hasValues |-> FALSE, values |-> <<>>, hasChildren |-> FALSE, ckeys |-> <<>>,
           cvals |-> <<>>],
        [hasValues |-> FALSE, values |-> <<>>, hasChildren |-> FALSE, ckeys |-> <<>>,
           cvals |-> <<>>],
        [hasValues |-> FALSE, values |-> <<>>, hasChildren |-> TRUE, ckeys |-> <<<<"mode">>,
           <<"replicas">>, <<"endpoint_mode">>, <<"labels">>, <<"placement">>, <<"resources">>,
           <<"restart_policy">>, <<"rollback_config">>, <<"update_config">>>>, cvals |-> <<
          [hasValues |-> TRUE, values |-> <<<<"replicated">>, <<"global">>>>,
             hasChildren |-> FALSE, ckeys |-> <<>>, cvals |-> <<>>],
          [hasValues |-> FALSE, values |-> <<>>, hasChildren |-> FALSE, ckeys |-> <<>>,
             cvals |-> <<>>],
          [hasValues |-> TRUE, values |-> <<<<"vip">>, <<"dnsrr">>>>, hasChildren |-> FALSE,
             ckeys |-> <<>>, cvals |-> <<>>],
          [hasValues |-> FALSE, values |-> <<>>, hasChildren |-> FALSE, ckeys |-> <<>>,
             cvals |-> <<>>],
          [hasValues |-> FALSE, values |-> <<>>, hasChildren |-> TRUE,
             ckeys |-> <<<<"constraints">>, <<"preferences">>, <<"max_replicas_per_node">>>>,
             cvals |-> <<
            [hasValues |-> FALSE, values |-> <<>>, hasChildren |-> FALSE, ckeys |-> <<>>,
               cvals |-> <<>>],
            [hasValues |-> FALSE, values |-> <<>>, hasChildren |-> FALSE, ckeys |-> <<>>,
               cvals |-> <<>>],
            [hasValues |-> FALSE, values |-> <<>>, hasChildren |-> FALSE, ckeys |-> <<>>,
               cvals |-> <<>>]>>],
          [hasValues |-> FALSE, values |-> <<>>, hasChildren |-> TRUE,
             ckeys |-> <<<<"limits">>, <<"reservations">>>>, cvals |-> <<
            [hasValues |-> FALSE, values |-> <<>>, hasChildren |-> TRUE,
               ckeys |-> <<<<"cpus">>, <<"memory">>, <<"pids">>>>, cvals |-> <<
              [hasValues |-> FALSE, values |-> <<>>, hasChildren |-> FALSE, ckeys |-> <<>>,
                 cvals |-> <<>>],
              [hasValues |-> FALSE, values |-> <<>>, hasChildren |-> FALSE, ckeys |-> <<>>,
                 cvals |-> <<>>],
              [hasValues |-> FALSE, values |-> <<>>, hasChildren |-> FALSE, ckeys |-> <<>>,
                 cvals |-> <<>>]>>],
            [hasValues |-> FALSE, values |-> <<>>, hasChildren |-> TRUE,
               ckeys |-> <<<<"cpus">>, <<"memory">>, <<"generic_resources">>>>, cvals |-> <<
              [hasValues |-> FALSE, values |-> <<>>, hasChildren |-> FALSE, ckeys |-> <<>>,
                 cvals |-> <<>>],
              [hasValues |-> FALSE, values |-> <<>>, hasChildren |-> FALSE, ckeys |-> <<>>,
                 cvals |-> <<>>],
              [hasValues |-> FALSE, values |-> <<>>, hasChildren |-> FALSE, ckeys |-> <<>>,
                 cvals |-> <<>>]>>]>>],
          [hasValues |-> FALSE, values |-> <<>>, hasChildren |-> TRUE,
             ckeys |-> <<<<"condition">>, <<"delay">>, <<"max_attempts">>, <<"window">>>>,
             cvals |-> <<
            [hasValues |-> TRUE, values |-> <<<<"none">>, <<"on", "-", "failure">>,
               <<"any">>>>, hasChildren |-> FALSE, ckeys |-> <<>>, cvals |-> <<>>],
            [hasValues |-> FALSE, values |-> <<>>, hasChildren |-> FALSE, ckeys |-> <<>>,
               cvals |-> <<>>],
            [hasValues |-> FALSE, values |-> <<>>, hasChildren |-> FALSE, ckeys |-> <<>>,
               cvals |-> <<>>],
            [hasValues |-> FALSE, values |-> <<>>, hasChildren |-> FALSE, ckeys |-> <<>>,
               cvals |-> <<>>]>>],
          [hasValues |-> FALSE, values |-> <<>>, hasChildren |-> TRUE,
             ckeys |-> <<<<"parallelism">>, <<"delay">>, <<"failure_action">>, <<"monitor">>,
             <<"max_failure_ratio">>, <<"order">>>>, cvals |-> <<
            [hasValues |-> FALSE, values |-> <<>>, hasChildren |-> FALSE, ckeys |-> <<>>,
               cvals |-> <<>>],
            [hasValues |-> FALSE, values |-> <<>>, hasChildren |-> FALSE, ckeys |-> <<>>,
               cvals |-> <<>>],
            [hasValues |-> TRUE, values |-> <<<<"continue">>, <<"pause">>>>,
               hasChildren |-> FALSE, ckeys |-> <<>>, cvals |-> <<>>],
            [hasValues |-> FALSE, values |-> <<>>, hasChildren |-> FALSE, ckeys |-> <<>>,
               cvals |-> <<>>],
            [hasValues |-> FALSE, values |-> <<>>, hasChildren |-> FALSE, ckeys |-> <<>>,
               cvals |-> <<>>],
            [hasValues |-> TRUE, values |-> <<<<"start", "-", "first">>, <<"stop", "-",
               "first">>>>, hasChildren |-> FALSE, ckeys |-> <<>>, cvals |-> <<>>]>>],
          [hasValues |-> FALSE, values |-> <<>>, hasChildren |-> TRUE,
             ckeys |-> <<<<"parallelism">>, <<"delay">>, <<"failure_action">>, <<"monitor">>,
             <<"max_failure_ratio">>, <<"order">>>>, cvals |-> <<
            [hasValues |-> FALSE, values |-> <<>>, hasChildren |-> FALSE, ckeys |-> <<>>,
               cvals |-> <<>>],
            [hasValues |-> FALSE, values |-> <<>>, hasChildren |-> FALSE, ckeys |-> <<>>,
               cvals |-> <<>>],
            [hasValues |-> TRUE, values |-> <<<<"continue">>, <<"pause">>, <<"rollback">>>>,
               hasChildren |-> FALSE, ckeys |-> <<>>, cvals |-> <<>>],
            [hasValues |-> FALSE, values |-> <<>>, hasChildren |-> FALSE, ckeys |-> <<>>,
               cvals |-> <<>>],
            [hasValues |-> FALSE, values |-> <<>>, hasChildren |-> FALSE, ckeys |-> <<>>,
               cvals |-> <<>>],
            [hasValues |-> TRUE, values |-> <<<<"start", "-", "first">>, <<"stop", "-",
               "first">>>>, hasChildren |-> FALSE, ckeys |-> <<>>, cvals |-> <<>>]>>]>>],
        [hasValues |-> FALSE, values |-> <<>>, hasChildren |-> FALSE, ckeys |-> <<>>,
           cvals |-> <<>>],
        [hasValues |-> FALSE, values |-> <<>>, hasChildren |-> FALSE, ckeys |-> <<>>,
           cvals |-> <<>>],
        [hasValues |-> FALSE, values |-> <<>>, hasChildren |-> FALSE, ckeys |-> <<>>,
           cvals |-> <<>>],
        [hasValues |-> FALSE, values |-> <<>>, hasChildren |-> FALSE, ckeys |-> <<>>,
           cvals |-> <<>>],
        [hasValues |-> FALSE, values |-> <<>>, hasChildren |-> FALSE, ckeys |-> <<>>,
           cvals |-> <<>>],
        [hasValues |-> FALSE, values |-> <<>>, hasChildren |-> FALSE, ckeys |-> <<>>,
           cvals |-> <<>>],
        [hasValues |-> FALSE, values |-> <<>>, hasChildren |-> FALSE, ckeys |-> <<>>,
           cvals |-> <<>>],
        [hasValues |-> FALSE, values |-> <<>>, hasChildren |-> TRUE, ckeys |-> <<<<"test">>,
           <<"interval">>, <<"timeout">>, <<"retries">>, <<"start_period">>, <<"disable">>>>,
           cvals |-> <<
          [hasValues |-> FALSE, values |-> <<>>, hasChildren |-> FALSE, ckeys |-> <<>>,
             cvals |-> <<>>],
          [hasValues |-> FALSE, values |-> <<>>, hasChildren |-> FALSE, ckeys |-> <<>>,
             cvals |-> <<>>],
          [hasValues |-> FALSE, values |-> <<>>, hasChildren |-> FALSE, ckeys |-> <<>>,
             cvals |-> <<>>],
          [hasValues |-> FALSE, values |-> <<>>, hasChildren |-> FALSE, ckeys |-> <<>>,
             cvals |-> <<>>],
          [hasValues |-> FALSE, values |-> <<>>, hasChildren |-> FALSE, ckeys |-> <<>>,
             cvals |-> <<>>],
          [hasValues |-> FALSE, values |-> <<>>, hasChildren |-> FALSE, ckeys |-> <<>>,
             cvals |-> <<>>]>>],
        [hasValues |-> FALSE, values |-> <<>>, hasChildren |-> FALSE, ckeys |-> <<>>,
           cvals |-> <<>>],
        [hasValues |-> FALSE, values |-> <<>>, hasChildren |-> FALSE, ckeys |-> <<>>,
           cvals |-> <<>>],
        [hasValues |-> FALSE, values |-> <<>>, hasChildren |-> FALSE, ckeys |-> <<>>,
           cvals |-> <<>>],
        [hasValues |-> FALSE, values |-> <<>>, hasChildren |-> FALSE, ckeys |-> <<>>,
           cvals |-> <<>>],
        [hasValues |-> FALSE, values |-> <<>>, hasChildren |-> TRUE, ckeys |-> <<<<"driver">>,
           <<"options">>>>, cvals |-> <<
          [hasValues |-> TRUE, values |-> <<<<"json", "-", "file">>, <<"syslog">>,
             <<"journald">>, <<"gelf">>, <<"fluentd">>, <<"awslogs">>, <<"splunk">>,
             <<"none">>>>, hasChildren |-> FALSE, ckeys |-> <<>>, cvals |-> <<>>],
          [hasValues |-> FALSE, values |-> <<>>, hasChildren |-> FALSE, ckeys |-> <<>>,
             cvals |-> <<>>]>>],
        [hasValues |-> TRUE, values |-> <<<<"bridge">>, <<"host">>, <<"none">>, <<"service",
           ":", "[service", " ", "name]">>, <<"container", ":", "[container", " ",
           "name/id]">>>>, hasChildren |-> FALSE, ckeys |-> <<>>, cvals |-> <<>>],
        [hasValues |-> FALSE, values |-> <<>>, hasChildren |-> TRUE, ckeys |-> <<<<"*">>>>,
           cvals |-> <<
          [hasValues |-> FALSE, values |-> <<>>, hasChildren |-> TRUE,
             ckeys |-> <<<<"aliases">>, <<"ipv4_address">>, <<"ipv6_address">>>>, cvals |-> <<
            [hasValues |-> FALSE, values |-> <<>>, hasChildren |-> FALSE, ckeys |-> <<>>,
               cvals |-> <<>>],
            [hasValues |-> FALSE, values |-> <<>>, hasChildren |-> FALSE, ckeys |-> <<>>,
               cvals |-> <<>>],
            [hasValues |-> FALSE, values |-> <<>>, hasChildren |-> FALSE, ckeys |-> <<>>,
               cvals |-> <<>>]>>]>>],
        [hasValues |-> TRUE, values |-> <<<<"host">>, <<"service", ":", "[service", " ",
           "name]">>>>, hasChildren |-> FALSE, ckeys |-> <<>>, cvals |-> <<>>],
        [hasValues |-> FALSE, values |-> <<>>, hasChildren |-> FALSE, ckeys |-> <<>>,
           cvals |-> <<>>],
        [hasValues |-> FALSE, values |-> <<>>, hasChildren |-> FALSE, ckeys |-> <<>>,
           cvals |-> <<>>],
        [hasValues |-> FALSE, values |-> <<>>, hasChildren |-> FALSE, ckeys |-> <<>>,
           cvals |-> <<>>],
        [hasValues |-> TRUE, values |-> <<<<"no">>, <<"always">>, <<"on", "-", "failure">>,
           <<"unless", "-", "stopped">>>>, hasChildren |-> FALSE, ckeys |-> <<>>,
           cvals |-> <<>>],
        [hasValues |-> FALSE, values |-> <<>>, hasChildren |-> FALSE, ckeys |-> <<>>,
           cvals |-> <<>>],
        [hasValues |-> FALSE, values |-> <<>>, hasChildren |-> FALSE, ckeys |-> <<>>,
           cvals |-> <<>>],
        [hasValues |-> FALSE, values |-> <<>>, hasChildren |-> FALSE, ckeys |-> <<>>,
           cvals |-> <<>>],
        [hasValues |-> FALSE, values |-> <<>>, hasChildren |-> FALSE, ckeys |-> <<>>,
           cvals |-> <<>>],
        [hasValues |-> FALSE, values |-> <<>>, hasChildren |-> FALSE, ckeys |-> <<>>,
           cvals |-> <<>>],
        [hasValues |-> FALSE, values |-> <<>>, hasChildren |-> FALSE, ckeys |-> <<>>,
           cvals |-> <<>>],
        [hasValues |-> FALSE, values |-> <<>>, hasChildren |-> FALSE, ckeys |-> <<>>,
           cvals |-> <<>>],
        [hasValues |-> FALSE, values |-> <<>>, hasChildren |-> FALSE, ckeys |-> <<>>,
           cvals |-> <<>>],
        [hasValues |-> FALSE, values |-> <<>>, hasChildren |-> FALSE, ckeys |-> <<>>,
           cvals |-> <<>>],
        [hasValues |-> FALSE, values |-> <<>>, hasChildren |-> TRUE, ckeys |-> <<<<"nproc">>,
           <<"nofile">>>>, cvals |-> <<
          [hasValues |-> FALSE, values |-> <<>>, hasChildren |-> FALSE, ckeys |-> <<>>,
             cvals |-> <<>>],
          [hasValues |-> FALSE, values |-> <<>>, hasChildren |-> FALSE, ckeys |-> <<>>,
             cvals |-> <<>>]>>],
        [hasValues |-> FALSE, values |-> <<>>, hasChildren |-> FALSE, ckeys |-> <<>>,
           cvals |-> <<>>],
        [hasValues |-> TRUE, values |-> <<<<"host">>>>, hasChildren |-> FALSE, ckeys |-> <<>>,
           cvals |-> <<>>],
        [hasValues |-> FALSE, values |-> <<>>, hasChildren |-> FALSE, ckeys |-> <<>>,
           cvals |-> <<>>],
        [hasValues |-> FALSE, values |-> <<>>, hasChildren |-> FALSE, ckeys |-> <<>>,
           cvals |-> <<>>],
        [hasValues |-> FALSE, values |-> <<>>, hasChildren |-> TRUE, ckeys |-> <<<<"*">>>>,
           cvals |-> <<
          [hasValues |-> FALSE, values |-> <<>>, hasChildren |-> TRUE,
             ckeys |-> <<<<"source">>, <<"target">>, <<"uid">>, <<"gid">>, <<"mode">>>>,
             cvals |-> <<
            [hasValues |-> FALSE, values |-> <<>>, hasChildren |-> FALSE, ckeys |-> <<>>,
               cvals |-> <<>>],
            [hasValues |-> FALSE, values |-> <<>>, hasChildren |-> FALSE, ckeys |-> <<>>,
               cvals |-> <<>>],
            [hasValues |-> FALSE, values |-> <<>>, hasChildren |-> FALSE, ckeys |-> <<>>,
               cvals |-> <<>>],
            [hasValues |-> FALSE, values |-> <<>>, hasChildren |-> FALSE, ckeys |-> <<>>,
               cvals |-> <<>>],
            [hasValues |-> FALSE, values |-> <<>>, hasChildren |-> FALSE, ckeys |-> <<>>,
               cvals |-> <<>>]>>]>>],
        [hasValues |-> TRUE, values |-> <<<<"ALL">>, <<"AUDIT_CONTROL">>, <<"AUDIT_WRITE">>,
           <<"BLOCK_SUSPEND">>, <<"CHOWN">>, <<"DAC_OVERRIDE">>, <<"DAC_READ_SEARCH">>,
           <<"FOWNER">>, <<"FSETID">>, <<"IPC_LOCK">>, <<"IPC_OWNER">>, <<"KILL">>,
           <<"LEASE">>, <<"LINUX_IMMUTABLE">>, <<"MAC_ADMIN">>, <<"MAC_OVERRIDE">>,
           <<"MKNOD">>, <<"NET_ADMIN">>, <<"NET_BIND_SERVICE">>, <<"NET_BROADCAST">>,
           <<"NET_RAW">>, <<"SETFCAP">>, <<"SETGID">>, <<"SETPCAP">>, <<"SETUID">>,
           <<"SYS_ADMIN">>, <<"SYS_BOOT">>, <<"SYS_CHROOT">>, <<"SYS_MODULE">>, <<"SYS_NICE">>,
           <<"SYS_PACCT">>, <<"SYS_PTRACE">>, <<"SYS_RAWIO">>, <<"SYS_RESOURCE">>,
           <<"SYS_TIME">>, <<"SYS_TTY_CONFIG">>, <<"SYSLOG">>, <<"WAKE_ALARM">>>>,
           hasChildren |-> FALSE, ckeys |-> <<>>, cvals |-> <<>>],
        [hasValues |-> TRUE, values |-> <<<<"ALL">>, <<"AUDIT_CONTROL">>, <<"AUDIT_WRITE">>,
           <<"BLOCK_SUSPEND">>, <<"CHOWN">>, <<"DAC_OVERRIDE">>, <<"DAC_READ_SEARCH">>,
           <<"FOWNER">>, <<"FSETID">>, <<"IPC_LOCK">>, <<"IPC_OWNER">>, <<"KILL">>,
           <<"LEASE">>, <<"LINUX_IMMUTABLE">>, <<"MAC_ADMIN">>, <<"MAC_OVERRIDE">>,
           <<"MKNOD">>, <<"NET_ADMIN">>, <<"NET_BIND_SERVICE">>, <<"NET_BROADCAST">>,
           <<"NET_RAW">>, <<"SETFCAP">>, <<"SETGID">>, <<"SETPCAP">>, <<"SETUID">>,
           <<"SYS_ADMIN">>, <<"SYS_BOOT">>, <<"SYS_CHROOT">>, <<"SYS_MODULE">>, <<"SYS_NICE">>,
           <<"SYS_PACCT">>, <<"SYS_PTRACE">>, <<"SYS_RAWIO">>, <<"SYS_RESOURCE">>,
           <<"SYS_TIME">>, <<"SYS_TTY_CONFIG">>, <<"SYSLOG">>, <<"WAKE_ALARM">>>>,
           hasChildren |-> FALSE, ckeys |-> <<>>, cvals |-> <<>>],
        [hasValues |-> FALSE, values |-> <<>>, hasChildren |-> FALSE, ckeys |-> <<>>,
           cvals |-> <<>>],
        [hasValues |-> FALSE, values |-> <<>>, hasChildren |-> FALSE, ckeys |-> <<>>,
           cvals |-> <<>>],
        [hasValues |-> FALSE, values |-> <<>>, hasChildren |-> FALSE, ckeys |-> <<>>,
           cvals |-> <<>>],
        [hasValues |-> TRUE, values |-> <<<<"host">>, <<"private">>, <<"shareable">>,
           <<"service", ":", "[service", " ", "name]">>, <<"container", ":", "[container", " ",
           "name/id]">>>>, hasChildren |-> FALSE, ckeys |-> <<>>, cvals |-> <<>>],
        [hasValues |-> TRUE, values |-> <<<<"default">>, <<"process">>, <<"hyperv">>>>,
           hasChildren |-> FALSE, ckeys |-> <<>>, cvals |-> <<>>],
        [hasValues |-> FALSE, values |-> <<>>, hasChildren |-> FALSE, ckeys |-> <<>>,
           cvals |-> <<>>],
        [hasValues |-> FALSE, values |-> <<>>, hasChildren |-> FALSE, ckeys |-> <<>>,
           cvals |-> <<>>],
        [hasValues |-> FALSE, values |-> <<>>, hasChildren |-> FALSE, ckeys |-> <<>>,
           cvals |-> <<>>],
        [hasValues |-> TRUE, values |-> <<<<"always">>, <<"never">>, <<"missing">>,
           <<"build">>>>, hasChildren |-> FALSE, ckeys |-> <<>>, cvals |-> <<>>],
        [hasValues |-> FALSE, values |-> <<>>, hasChildren |-> FALSE, ckeys |-> <<>>,
           cvals |-> <<>>],
        [hasValues |-> FALSE, values |-> <<>>, hasChildren |-> FALSE, ckeys |-> <<>>,
           cvals |-> <<>>],
        [hasValues |-> FALSE, values |-> <<>>, hasChildren |-> FALSE, ckeys |-> <<>>,
           cvals |-> <<>>]>>]>>],
    [hasValues |-> FALSE, values |-> <<>>, hasChildren |-> TRUE, ckeys |-> <<<<"*">>>>,
       cvals |-> <<
      [hasValues |-> FALSE, values |-> <<>>, hasChildren |-> TRUE, ckeys |-> <<<<"driver">>,
         <<"driver_opts">>, <<"attachable">>, <<"enable_ipv6">>, <<"external">>,
         <<"internal">>, <<"ipam">>, <<"labels">>, <<"name">>>>, cvals |-> <<
        [hasValues |-> TRUE, values |-> <<<<"bridge">>, <<"overlay">>, <<"host">>, <<"none">>,
           <<"macvlan">>, <<"ipvlan">>>>, hasChildren |-> FALSE, ckeys |-> <<>>,
           cvals |-> <<>>],
        [hasValues |-> FALSE, values |-> <<>>, hasChildren |-> FALSE, ckeys |-> <<>>,
           cvals |-> <<>>],
        [hasValues |-> FALSE, values |-> <<>>, hasChildren |-> FALSE, ckeys |-> <<>>,
           cvals |-> <<>>],
        [hasValues |-> FALSE, values |-> <<>>, hasChildren |-> FALSE, ckeys |-> <<>>,
           cvals |-> <<>>],
        [hasValues |-> FALSE, values |-> <<>>, hasChildren |-> TRUE, ckeys |-> <<<<"name">>>>,
           cvals |-> <<
          [hasValues |-> FALSE, values |-> <<>>, hasChildren |-> FALSE, ckeys |-> <<>>,
             cvals |-> <<>>]>>],
        [hasValues |-> FALSE, values |-> <<>>, hasChildren |-> FALSE, ckeys |-> <<>>,
           cvals |-> <<>>],
        [hasValues |-> FALSE, values |-> <<>>, hasChildren |-> TRUE, ckeys |-> <<<<"driver">>,
           <<"config">>, <<"options">>>>, cvals |-> <<
          [hasValues |-> TRUE, values |-> <<<<"default">>>>, hasChildren |-> FALSE,
             ckeys |-> <<>>, cvals |-> <<>>],
          [hasValues |-> FALSE, values |-> <<>>, hasChildren |-> TRUE, ckeys |-> <<<<"*">>>>,
             cvals |-> <<
            [hasValues |-> FALSE, values |-> <<>>, hasChildren |-> TRUE,
               ckeys |-> <<<<"subnet">>, <<"ip_range">>, <<"gateway">>, <<"aux_addresses">>>>,
               cvals |-> <<
              [hasValues |-> FALSE, values |-> <<>>, hasChildren |-> FALSE, ckeys |-> <<>>,
                 cvals |-> <<>>],
              [hasValues |-> FALSE, values |-> <<>>, hasChildren |-> FALSE, ckeys |-> <<>>,
                 cvals |-> <<>>],
              [hasValues |-> FALSE, values |-> <<>>, hasChildren |-> FALSE, ckeys |-> <<>>,
                 cvals |-> <<>>],
              [hasValues |-> FALSE, values |-> <<>>, hasChildren |-> FALSE, ckeys |-> <<>>,
                 cvals |-> <<>>]>>]>>],
          [hasValues |-> FALSE, values |-> <<>>, hasChildren |-> FALSE, ckeys |-> <<>>,
             cvals |-> <<>>]>>],
        [hasValues |-> FALSE, values |-> <<>>, hasChildren |-> FALSE, ckeys |-> <<>>,
           cvals |-> <<>>],
        [hasValues |-> FALSE, values |-> <<>>, hasChildren |-> FALSE, ckeys |-> <<>>,
           cvals |-> <<>>]>>]>>],
    [hasValues |-> FALSE, values |-> <<>>, hasChildren |-> TRUE, ckeys |-> <<<<"*">>>>,
       cvals |-> <<
      [hasValues |-> FALSE, values |-> <<>>, hasChildren |-> TRUE, ckeys |-> <<<<"driver">>,
         <<"driver_opts">>, <<"external">>, <<"labels">>, <<"name">>>>, cvals |-> <<
        [hasValues |-> TRUE, values |-> <<<<"local">>, <<"nfs">>, <<"cifs">>>>,
           hasChildren |-> FALSE, ckeys |-> <<>>, cvals |-> <<>>],
        [hasValues |-> FALSE, values |-> <<>>, hasChildren |-> FALSE, ckeys |-> <<>>,
           cvals |-> <<>>],
        [hasValues |-> FALSE, values |-> <<>>, hasChildren |-> TRUE, ckeys |-> <<<<"name">>>>,
           cvals |-> <<
          [hasValues |-> FALSE, values |-> <<>>, hasChildren |-> FALSE, ckeys |-> <<>>,
             cvals |-> <<>>]>>],
        [hasValues |-> FALSE, values |-> <<>>, hasChildren |-> FALSE, ckeys |-> <<>>,
           cvals |-> <<>>],
        [hasValues |-> FALSE, values |-> <<>>, hasChildren |-> FALSE, ckeys |-> <<>>,
           cvals |-> <<>>]>>]>>],
    [hasValues |-> FALSE, values |-> <<>>, hasChildren |-> TRUE, ckeys |-> <<<<"*">>>>,
       cvals |-> <<
      [hasValues |-> FALSE, values |-> <<>>, hasChildren |-> TRUE, ckeys |-> <<<<"file">>,
         <<"external">>, <<"name">>, <<"template_driver">>>>, cvals |-> <<
        [hasValues |-> FALSE, values |-> <<>>, hasChildren |-> FALSE, ckeys |-> <<>>,
           cvals |-> <<>>],
        [hasValues |-> FALSE, values |-> <<>>, hasChildren |-> TRUE, ckeys |-> <<<<"name">>>>,
           cvals |-> <<
          [hasValues |-> FALSE, values |-> <<>>, hasChildren |-> FALSE, ckeys |-> <<>>,
             cvals |-> <<>>]>>],
        [hasValues |-> FALSE, values |-> <<>>, hasChildren |-> FALSE, ckeys |-> <<>>,
           cvals |-> <<>>],
        [hasValues |-> FALSE, values |-> <<>>, hasChildren |-> FALSE, ckeys |-> <<>>,
           cvals |-> <<>>]>>]>>],
    [hasValues |-> FALSE, values |-> <<>>, hasChildren |-> TRUE, ckeys |-> <<<<"*">>>>,
       cvals |-> <<
      [hasValues |-> FALSE, values |-> <<>>, hasChildren |-> TRUE, ckeys |-> <<<<"file">>,
         <<"external">>, <<"name">>, <<"template_driver">>>>, cvals |-> <<
        [hasValues |-> FALSE, values |-> <<>>, hasChildren |-> FALSE, ckeys |-> <<>>,
           cvals |-> <<>>],
        [hasValues |-> FALSE, values |-> <<>>, hasChildren |-> TRUE, ckeys |-> <<<<"name">>>>,
           cvals |-> <<
          [hasValues |-> FALSE, values |-> <<>>, hasChildren |-> FALSE, ckeys |-> <<>>,
             cvals |-> <<>>]>>],
        [hasValues |-> FALSE, values |-> <<>>, hasChildren |-> FALSE, ckeys |-> <<>>,
           cvals |-> <<>>],
        [hasValues |-> FALSE, values |-> <<>>, hasChildren |-> FALSE, ckeys |-> <<>>,
           cvals |-> <<>>]>>]>>],
    [hasValues |-> FALSE, values |-> <<>>, hasChildren |-> FALSE, ckeys |-> <<>>,
       cvals |-> <<>>]>>]


NoSchema == [hasValues |-> FALSE, values |-> <<>>, hasChildren |-> FALSE,
             ckeys |-> <<>>, cvals |-> <<>>]

ChildPos(n, key) ==
    IF \E i \in 1..Len(n.ckeys) : n.ckeys[i] = key
    THEN CHOOSE i \in 1..Len(n.ckeys) : n.ckeys[i] = key
    ELSE 0

\* Names every object literal inherits from Object.prototype.  A lookup
\* table[key] with such a key yields the inherited function, which is truthy.
ProtoNames == {"constructor", "toString", "valueOf", "hasOwnProperty",
               "isPrototypeOf", "propertyIsEnumerable", "toLocaleString"}

\* table[key] for a schema table: "own", "proto" (inherited) or "none"
LookupKind(n, key) ==
    IF ChildPos(n, key) > 0 THEN "own"
    ELSE IF Len(key) = 1 /\ key[1] \in ProtoNames THEN "proto"
    ELSE "none"

\* The inherited function as a schema: it has no children, and its values
\* property is undefined except for constructor (Object.values, a function).
ProtoFn(key) ==
    [hasValues |-> key = <<"constructor">>, values |-> <<>>, hasChildren |-> FALSE,
     ckeys |-> <<>>, cvals |-> <<>>, fn |-> TRUE]

IsFn(schema) == "fn" \in DOMAIN schema

SchemaChild(n, key) ==
    IF ChildPos(n, key) > 0 THEN n.cvals[ChildPos(n, key)] ELSE ProtoFn(key)

STAR == <<"*">>

-----------------------------------------------------------------------------
(* DockerComposeValidator *)

freeFormKeys == {"driver_opts", "options", "labels", "args", "environment",
                 "sysctls", "extra_hosts", "storage_opt", "aux_addresses"}

serviceOnlyKeys == {"image", "build", "command", "entrypoint", "container_name",
    "depends_on", "deploy", "ports", "expose", "volumes", "environment",
    "env_file", "healthcheck", "logging", "networks", "restart",
    "secrets", "configs", "labels", "working_dir", "user", "privileged",
    "cap_add", "cap_drop", "devices", "dns", "dns_search", "tmpfs",
    "hostname", "domainname", "shm_size", "stop_grace_period", "stop_signal",
    "stdin_open", "tty", "ulimits", "init", "read_only", "pid", "ipc",
    "security_opt", "sysctls", "userns_mode", "isolation", "platform"}

deployOnlyKeys == {"mode", "replicas", "placement", "resources", "restart_policy",
                   "update_config", "rollback_config", "endpoint_mode"}

InWords(key, set) == Len(key) = 1 /\ key[1] \in set

Specials == {SP, TAB, DASH, COLON, HASH, DQ, SQ}

\* String concatenation: two words that meet become one word
Cat(a, b) ==
    IF a # <<>> /\ b # <<>> /\ ~(a[Len(a)] \in Specials) /\ ~(Head(b) \in Specials)
    THEN Take(a, Len(a) - 1) \o <<a[Len(a)] \o Head(b)>> \o Tail(b)
    ELSE a \o b

RECURSIVE Without(_, _)
Without(s, chars) ==
    IF s = <<>> THEN <<>>
    ELSE IF Head(s) \in chars THEN Without(Tail(s), chars)
    ELSE Cat(<<Head(s)>>, Without(Tail(s), chars))

\* Does String(v) throw?  An own property named toString hides the inherited
\* method with a value that is not callable, and the conversion to a
\* primitive fails with a TypeError.
RECURSIVE StringThrows(_)
StringThrows(v) ==
    /\ v.t \in {"obj", "arr"}
    /\ \/ KeyPos(v, <<"toString">>) > 0
       \/ v.t = "arr" /\ \E i \in 1..Len(v.it) : StringThrows(v.it[i])

\* String(v), where it does not throw
RECURSIVE JsString(_), JoinItems(_, _)
JsString(v) ==
    CASE v.t = "null" -> <<"null">>
      [] v.t = "undef" -> <<"undefined">>
      [] v.t = "obj" -> <<"[object", SP, "Object]">>
      [] v.t = "arr" -> JoinItems(v.it, 1)
      [] OTHER -> v.s
JoinItems(items, i) ==
    IF i > Len(items) THEN <<>>
    ELSE Cat(Cat(IF i > 1 THEN <<",">> ELSE <<>>,
                 IF items[i].t \in {"null", "undef"} THEN <<>> ELSE JsString(items[i])),
             JoinItems(items, i + 1))

\* The test of the pattern ^\s*-?\s*KEY\s*: on one line (findKeyLine)
KeyAt(rest, key) ==
    /\ StartsWith(rest, key)
    /\ LTrim(Drop(rest, Len(key))) # <<>>
    /\ Head(LTrim(Drop(rest, Len(key)))) = COLON

KeyPattern(line, key) ==
    \/ KeyAt(LTrim(line), key)
    \/ /\ LTrim(line) # <<>>
       /\ Head(LTrim(line)) = DASH
       /\ KeyAt(LTrim(Tail(LTrim(line))), key)

\* DockerComposeValidator.findKeyLine; startLine is a 0-based offset
findKeyLine(lines, key, startLine) ==
    IF \E i \in (startLine + 1)..Len(lines) : KeyPattern(lines[i], key)
    THEN CHOOSE i \in (startLine + 1)..Len(lines) :
            /\ KeyPattern(lines[i], key)
            /\ \A j \in (startLine + 1)..(i - 1) : ~KeyPattern(lines[j], key)
    ELSE startLine + 1

\* The state of one run of validate: errors, and whether an exception has
\* left the function
\* A validator that keeps its errors array from one call to the next
ValidateStartKept == [errors |-> verrors, threw |-> FALSE]

ValidateStart == [errors |-> <<>>, threw |-> FALSE]

Push(vs, d) == [vs EXCEPT !.errors = Append(@, d)]

InSeq(seq, x) == \E i \in 1..Len(seq) : seq[i] = x

RECURSIVE FilterOut(_, _)
FilterOut(seq, x) ==
    IF seq = <<>> THEN <<>>
    ELSE (IF Head(seq) = x THEN <<>> ELSE <<Head(seq)>>) \o FilterOut(Tail(seq), x)

\* v.split('[')[0] for an enum entry v.  In the schema every '[' opens a
\* placeholder word that follows a ':' ("service:[service name]").
BracketWords == {"[service", "[container"}
RECURSIVE SplitBracket(_)
SplitBracket(v) ==
    IF v = <<>> \/ Head(v) \in BracketWords THEN <<>>
    ELSE <<Head(v)>> \o SplitBracket(Tail(v))

\* Pairs <<w, p>> of words of the input alphabet where p is a proper prefix of
\* w, character by character
WordPrefixes == {<<"none", "no">>, <<"nope", "no">>, <<"hostile", "host">>,
                 <<"always", "al">>}

\* config.startsWith(prefix), character by character
StartsWithChars(config, prefix) ==
    \/ prefix = <<>>
    \/ StartsWith(config, prefix)
    \/ /\ ~(prefix[Len(prefix)] \in Specials)
       /\ Len(config) >= Len(prefix)
       /\ Take(config, Len(prefix) - 1) = Take(prefix, Len(prefix) - 1)
       /\ <<config[Len(prefix)], prefix[Len(prefix)]>> \in WordPrefixes

RECURSIVE validateNestedConfig(_, _, _, _, _, _), NestedKeys(_, _, _, _, _, _, _)
\* DockerComposeValidator.validateNestedConfig (lines 1137-1182); every caller
\* passes a truthy schema
validateNestedConfig(vs, config, key, schema, lines, context) ==
    IF vs.threw \/ config.t \in {"null", "undef"} THEN vs
    ELSE IF InWords(key, freeFormKeys) THEN vs
    ELSE IF IsArray(config) THEN vs
    ELSE LET vs1 ==
               IF schema.hasValues /\ config.t = "str"
               THEN IF IsFn(schema) THEN [vs EXCEPT !.threw = TRUE]
                    ELSE IF /\ ~InSeq(schema.values, config.s)
                            /\ ~\E i \in 1..Len(schema.values) :
                                  StartsWithChars(config.s, SplitBracket(schema.values[i]))
                         THEN Push(vs, [Diag(findKeyLine(lines, key, 0), 1,
                                             "Invalid value", "warning")
                                          EXCEPT !.key = key, !.ctx = config.s,
                                                 !.validValues = schema.values])
                         ELSE vs
               ELSE vs
         IN  IF ~vs1.threw /\ schema.hasChildren /\ config.t = "obj"
             THEN NestedKeys(vs1, config, key, schema, lines, context, 1)
             ELSE vs1

\* The loop over Object.keys(config) in validateNestedConfig (lines 1162-1180)
NestedKeys(vs, config, key, schema, lines, context, i) ==
    IF i > Len(ObjectKeys(config)) \/ vs.threw THEN vs
    ELSE LET subKey == ObjectKeys(config)[i]
             kind == LookupKind(schema, subKey)
             hasStar == ChildPos(schema, STAR) > 0
             here == Cat(Cat(context, <<".">>), key)
             vs1 ==
               IF StartsWith(subKey, <<"x", DASH>>) \/ InWords(subKey, freeFormKeys)
               THEN vs
               ELSE IF kind = "none" /\ ~hasStar
                    THEN Push(vs, [Diag(findKeyLine(lines, subKey, 0), 1,
                                        "Unknown key", "warning")
                                     EXCEPT !.key = subKey, !.ctx = here,
                                            !.validKeys = FilterOut(schema.ckeys, STAR)])
                    ELSE validateNestedConfig(vs, GetProp(config, subKey), subKey,
                            IF kind = "none" THEN SchemaChild(schema, STAR)
                            ELSE SchemaChild(schema, subKey),
                            lines, here)
         IN  NestedKeys(vs1, config, key, schema, lines, context, i + 1)

\* The schema of a service: DockerComposeSchema.services.children['*']
serviceSchema == SchemaChild(SchemaChild(DockerComposeSchema, <<"services">>), STAR)

\* The loop over Object.keys(serviceConfig) in validateServices (lines 1081-1099)
RECURSIVE ServiceKeys(_, _, _, _, _)
ServiceKeys(vs, serviceName, serviceConfig, lines, i) ==
    IF i > Len(ObjectKeys(serviceConfig)) \/ vs.threw THEN vs
    ELSE LET key == ObjectKeys(serviceConfig)[i]
             value == GetProp(serviceConfig, key)
             vs1 ==
               IF StartsWith(key, <<"x", DASH>>) THEN vs
               ELSE IF LookupKind(serviceSchema, key) = "none"
                    THEN Push(vs, [Diag(findKeyLine(lines, key,
                                             findKeyLine(lines, serviceName, 0)), 1,
                                        "Unknown service key", "error")
                                     EXCEPT !.key = key, !.ctx = serviceName,
                                            !.validKeys = serviceSchema.ckeys])
                    ELSE IF ~IsArray(value) /\ ~InWords(key, freeFormKeys)
                         THEN validateNestedConfig(vs, value, key,
                                 SchemaChild(serviceSchema, key), lines, serviceName)
                         ELSE vs
         IN  ServiceKeys(vs1, serviceName, serviceConfig, lines, i + 1)

\* The required-field check of validateServices (lines 1069-1078)
MissingImageOrBuild(vs, serviceName, serviceConfig, lines) ==
    IF ~Truthy(GetProp(serviceConfig, <<"image">>))
       /\ ~Truthy(GetProp(serviceConfig, <<"build">>))
    THEN Push(vs, [Diag(findKeyLine(lines, serviceName, 0), 1,
                        "must have either image or build", "error")
                     EXCEPT !.key = serviceName])
    ELSE vs

\* DockerComposeValidator.validateServices (lines 1063-1101), from entry i on
RECURSIVE validateServices(_, _, _, _)
validateServices(vs, services, lines, i) ==
    IF i > Len(ObjectKeys(services)) \/ vs.threw THEN vs
    ELSE LET serviceName == ObjectKeys(services)[i]
             serviceConfig == GetProp(services, serviceName)
         IN  validateServices(
                IF ~Truthy(serviceConfig) \/ ~IsObjectType(serviceConfig) THEN vs
                ELSE ServiceKeys(MissingImageOrBuild(vs, serviceName, serviceConfig, lines),
                                 serviceName, serviceConfig, lines, 1),
                services, lines, i + 1)

\* The loop over Object.keys(itemConfig) in validateSection (lines 1114-1133)
RECURSIVE SectionKeys(_, _, _, _, _, _, _)
SectionKeys(vs, itemName, itemConfig, lines, sectionName, schema, i) ==
    IF i > Len(ObjectKeys(itemConfig)) THEN vs
    ELSE LET key == ObjectKeys(itemConfig)[i]
             vs1 ==
               IF \/ StartsWith(key, <<"x", DASH>>)
                  \/ InWords(key, freeFormKeys)
                  \/ key = <<"name">>
                  \/ key = <<"external">>
               THEN vs
               ELSE IF Len(schema.ckeys) > 0 /\ LookupKind(schema, key) = "none"
                    THEN Push(vs, [Diag(findKeyLine(lines, key,
                                             findKeyLine(lines, itemName, 0)), 1,
                                        "Unknown key", "error")
                                     EXCEPT !.key = key,
                                            !.ctx = Cat(<<sectionName \o ".">>,
                                                        <<DQ>> \o itemName \o <<DQ>>),
                                            !.validKeys = schema.ckeys])
                    ELSE vs
         IN  SectionKeys(vs1, itemName, itemConfig, lines, sectionName, schema, i + 1)

\* DockerComposeValidator.validateSection (lines 1103-1135), from entry i on;
\* the schema of every section exists
RECURSIVE validateSection(_, _, _, _, _, _)
validateSection(vs, section, lines, sectionName, schema, i) ==
    IF i > Len(ObjectKeys(section)) THEN vs
    ELSE LET itemName == ObjectKeys(section)[i]
             itemConfig == GetProp(section, itemName)
         IN  validateSection(
                IF ~(itemConfig.t \in {"obj", "arr"}) THEN vs
                ELSE SectionKeys(vs, itemName, itemConfig, lines, sectionName, schema, 1),
                section, lines, sectionName, schema, i + 1)

\* Object.keys(DockerComposeSchema).filter(k => k !== 'x')
TopLevelKeys == FilterOut(DockerComposeSchema.ckeys, <<"x">>)

\* The loop over the root keys in validate (lines 987-1017)
RECURSIVE TopLevel(_, _, _, _)
TopLevel(vs, parsedData, lines, i) ==
    IF i > Len(ObjectKeys(parsedData)) THEN vs
    ELSE LET key == ObjectKeys(parsedData)[i]
             lineNum == findKeyLine(lines, key, 0)
             vs1 ==
               IF StartsWith(key, <<"x", DASH>>) THEN vs
               ELSE IF LookupKind(DockerComposeSchema, key) # "none" THEN vs
               ELSE IF InWords(key, serviceOnlyKeys)
                    THEN Push(vs, [Diag(lineNum, 1,
                                        "should be inside a service definition", "error")
                                     EXCEPT !.key = key])
               ELSE IF InWords(key, deployOnlyKeys)
                    THEN Push(vs, [Diag(lineNum, 1,
                                        "should be inside a deploy section", "error")
                                     EXCEPT !.key = key])
               ELSE Push(vs, [Diag(lineNum, 1, "Unknown top-level key", "error")
                                EXCEPT !.key = key, !.validKeys = TopLevelKeys])
         IN  TopLevel(vs1, parsedData, lines, i + 1)

validVersions == SchemaChild(DockerComposeSchema, <<"version">>).values

\* The version check of validate (lines 1020-1033)
Version(vs, parsedData, lines) ==
    LET v == GetProp(parsedData, <<"version">>)
        version == Without(JsString(v), {DQ, SQ})
    IN  IF ~Truthy(v) THEN vs
        ELSE IF StringThrows(v) THEN [vs EXCEPT !.threw = TRUE]
        ELSE IF ~InSeq(validVersions, version)
        THEN Push(vs, [Diag(findKeyLine(lines, <<"version">>, 0), 1,
                            "Invalid version", "warning")
                         EXCEPT !.key = version, !.validValues = validVersions])
        ELSE vs

\* One of the section calls of validate (lines 1041-1058)
Section(vs, parsedData, lines, sectionName) ==
    LET section == GetProp(parsedData, <<sectionName>>)
    IN  IF Truthy(section) /\ IsObjectType(section)
        THEN validateSection(vs, section, lines, sectionName,
                SchemaChild(SchemaChild(DockerComposeSchema, <<sectionName>>), STAR), 1)
        ELSE vs

\* The services call of validate (lines 1036-1038)
Services(vs, parsedData, lines) ==
    LET services == GetProp(parsedData, <<"services">>)
    IN  IF Truthy(services) /\ IsObjectType(services)
        THEN validateServices(vs, services, lines, 1)
        ELSE vs

\* DockerComposeValidator.validate
validate(lines, parsedData) ==
    IF ObjectKeys(parsedData) = <<>> THEN ValidateStart
    ELSE LET v1 == Version(TopLevel(ValidateStart, parsedData, lines, 1),
                           parsedData, lines)
             v2 == Services(v1, parsedData, lines)
         IN  IF v1.threw \/ v2.threw THEN [v2 EXCEPT !.threw = TRUE]
             ELSE Section(Section(Section(Section(v2, parsedData, lines, "networks"),
                     parsedData, lines, "volumes"), parsedData, lines, "configs"),
                     parsedData, lines, "secrets")

-----------------------------------------------------------------------------
(* YamlParser.stringify.  The text it returns is modelled by its lines;    *)
(* every line it emits ends with '\n'.                                     *)

\* '  '.repeat(indent)
Spaces(indent) == [i \in 1..(2 * indent) |-> SP]

\* val.replace(/"/g, '\\"')
RECURSIVE EscapeQuotes(_)
EscapeQuotes(s) ==
    IF s = <<>> THEN <<>>
    ELSE Cat(IF Head(s) = DQ THEN <<"\\", DQ>> ELSE <<Head(s)>>, EscapeQuotes(Tail(s)))

\* YamlParser.valueToString
valueToString(val) ==
    CASE val.t = "null" -> <<"null">>
      [] val.t \in {"bool", "num"} -> val.s
      [] val.t = "str" ->
            IF \/ Includes(val.s, COLON) \/ Includes(val.s, HASH) \/ Includes(val.s, SQ)
               \/ StartsWith(val.s, <<SP>>) \/ EndsWith(val.s, <<SP>>)
            THEN <<DQ>> \o EscapeQuotes(val.s) \o <<DQ>>
            ELSE val.s
      [] OTHER -> JsString(val)

RECURSIVE stringify(_, _), StringifyItems(_, _, _), StringifyEntries(_, _, _)
\* YamlParser.stringify: the lines of the text it returns
stringify(obj, indent) ==
    IF IsArray(obj) THEN StringifyItems(obj, indent, 1)
    ELSE IF obj.t = "obj" THEN StringifyEntries(obj, indent, 1)
    ELSE <<>>

\* The loop over the items of an array (lines 210-216)
StringifyItems(obj, indent, i) ==
    IF i > Len(obj.it) THEN <<>>
    ELSE (IF obj.it[i].t \in {"obj", "arr"}
          THEN <<Spaces(indent) \o <<DASH>>>> \o stringify(obj.it[i], indent + 1)
          ELSE <<Spaces(indent) \o <<DASH, SP>> \o valueToString(obj.it[i])>>)
         \o StringifyItems(obj, indent, i + 1)

\* The loop over Object.entries(obj) (lines 218-226)
StringifyEntries(obj, indent, i) ==
    IF i > Len(obj.ks) THEN <<>>
    ELSE (IF \/ obj.vs[i].t = "obj" /\ Len(obj.vs[i].ks) > 0
             \/ obj.vs[i].t = "arr"
          THEN <<Spaces(indent) \o obj.ks[i] \o <<COLON>>>>
               \o stringify(obj.vs[i], indent + 1)
          ELSE <<Spaces(indent) \o obj.ks[i] \o <<COLON, SP>>
                 \o valueToString(obj.vs[i])>>)
         \o StringifyEntries(obj, indent, i + 1)

\* s.split('\n') for the text made of the given lines, each ended by '\n'
SplitLines(lines) == lines \o << <<>> >>

-----------------------------------------------------------------------------
(* AutocompleteEngine.getContext *)

\* trimmed.match(/^-?\s*([^:]+):/): is there a match
HasKeyMatch(trimmed) == IndexOf(trimmed, COLON) >= 1

\* keyMatch[1].trim() for a line with a match.  The pattern skips a leading
\* '-' and the blanks after it, as long as a character is left for the group.
MatchedKey(trimmed) ==
    LET pre == Take(trimmed, IndexOf(trimmed, COLON))
    IN  IF Head(pre) = DASH
        THEN IF LTrim(Tail(pre)) # <<>> THEN Trim(Tail(pre))
             ELSE IF Len(pre) > 1 THEN <<>> ELSE <<DASH>>
        ELSE Trim(pre)

CtxFrame(indent, key) == [indent |-> indent, key |-> key]

\* ContextScan pushing a frame for every key, whatever follows its colon
RECURSIVE ContextScanEveryKey(_, _, _, _)
ContextScanEveryKey(indentStack, lines, i, cursor) ==
    IF i > cursor - 1 THEN indentStack
    ELSE LET line == lines[i]
             trimmed == Trim(line)
             indent == SearchNonWs(line)
             popped == PopStack(indentStack, indent)
         IN  ContextScanEveryKey(
                IF IsSkipped(line) \/ ~HasKeyMatch(trimmed) THEN indentStack
                ELSE Append(popped, CtxFrame(indent, MatchedKey(trimmed))),
                lines, i + 1, cursor)

\* The loop of getContext over the lines before the cursor (lines 1331-1360),
\* for the lines with index i (1-based) to cursorLine - 1
RECURSIVE ContextScan(_, _, _, _)
ContextScan(indentStack, lines, i, cursor) ==
    IF i > cursor - 1 THEN indentStack
    ELSE LET line == lines[i]
             trimmed == Trim(line)
             indent == SearchNonWs(line)
             afterColon == Trim(Drop(trimmed, IndexOf(trimmed, COLON) + 1))
             popped == PopStack(indentStack, indent)
         IN  ContextScan(
                IF IsSkipped(line) \/ ~HasKeyMatch(trimmed) THEN indentStack
                ELSE IF afterColon \in BlockMarkers
                     THEN Append(popped, CtxFrame(indent, MatchedKey(trimmed)))
                     ELSE popped,
                lines, i + 1, cursor)

\* CurrentIndent taking the indentation of a blank cursor line as 0
CurrentIndentBlankZero(lines, cursor) ==
    LET currentLine == IF cursor <= Len(lines) THEN lines[cursor] ELSE <<>>
    IN  IF SearchNonWs(currentLine) < 0 THEN 0 ELSE SearchNonWs(currentLine)

\* The indentation of the cursor line (lines 1363-1369)
CurrentIndent(lines, cursor) ==
    LET currentLine == IF cursor <= Len(lines) THEN lines[cursor] ELSE <<>>
    IN  IF SearchNonWs(currentLine) < 0 THEN BlankLen(currentLine)
        ELSE SearchNonWs(currentLine)

\* AutocompleteEngine.getContext, for 1 <= cursor <= Len(lines) + 1
getContext(lines, cursor) ==
    LET scanned == ContextScan(<<CtxFrame(-1, <<"root">>)>>, lines, 1, cursor)
        stk == PopStack(scanned, CurrentIndent(lines, cursor))
    IN  [path |-> [i \in 1..(Len(stk) - 1) |-> stk[i + 1].key],
         indent |-> stk[Len(stk)].indent]

-----------------------------------------------------------------------------
(* AutocompleteEngine: suggestions (lines 1198-1324 and 1382-1497) *)

\* A key list as written in the source: every key is one word
Keys(ws) == [i \in 1..Len(ws) |-> <<ws[i]>>]

\* The priority lists of AutocompleteEngine (lines 1199-1276); limitsKeyPriority
\* is the list written in place for limits and reservations (line 1411)
AutocompleteEngine ==
    [ serviceKeyPriority |->
          Keys(<<"image", "build", "container_name", "command",
                 "entrypoint", "environment", "env_file", "ports",
                 "expose", "volumes", "networks", "depends_on", "deploy",
                 "restart", "healthcheck", "secrets", "configs", "labels",
                 "logging", "working_dir", "user", "privileged",
                 "cap_add", "cap_drop", "devices", "dns", "dns_search",
                 "extra_hosts", "hostname", "domainname", "init", "pid",
                 "ipc", "shm_size", "stdin_open", "tty", "stop_signal",
                 "stop_grace_period", "security_opt", "sysctls",
                 "ulimits", "userns_mode", "platform", "runtime",
                 "isolation", "network_mode", "tmpfs", "read_only",
                 "mac_address", "cgroup_parent", "links",
                 "external_links", "profiles", "pull_policy", "scale",
                 "storage_opt">>),
      deployKeyPriority |->
          Keys(<<"mode", "replicas", "placement", "resources",
                 "restart_policy", "update_config", "rollback_config",
                 "labels", "endpoint_mode">>),
      topLevelKeyPriority |->
          Keys(<<"version", "services", "networks", "volumes", "secrets",
                 "configs">>),
      networkKeyPriority |->
          Keys(<<"driver", "driver_opts", "external", "name",
                 "attachable", "internal", "ipam", "labels",
                 "enable_ipv6">>),
      volumeKeyPriority |->
          Keys(<<"driver", "driver_opts", "external", "name", "labels">>),
      secretKeyPriority |->
          Keys(<<"file", "external", "name", "template_driver">>),
      healthcheckKeyPriority |->
          Keys(<<"test", "interval", "timeout", "retries", "start_period",
                 "disable">>),
      resourcesKeyPriority |->
          Keys(<<"limits", "reservations">>),
      placementKeyPriority |->
          Keys(<<"constraints", "preferences", "max_replicas_per_node">>),
      updateConfigKeyPriority |->
          Keys(<<"parallelism", "delay", "failure_action", "monitor",
                 "max_failure_ratio", "order">>),
      restartPolicyKeyPriority |->
          Keys(<<"condition", "delay", "max_attempts", "window">>),
      buildKeyPriority |->
          Keys(<<"context", "dockerfile", "args", "target", "cache_from",
                 "labels", "network", "shm_size">>),
      loggingKeyPriority |->
          Keys(<<"driver", "options">>),
      limitsKeyPriority |->
          Keys(<<"cpus", "memory", "pids", "generic_resources">>) ]

\* The characters of a string of atoms, as one string
RECURSIVE Chars(_)
Chars(s) == IF s = <<>> THEN "" ELSE Head(s) \o Chars(Tail(s))

UpperCaseLetters == "ABCDEFGHIJKLMNOPQRSTUVWXYZ"
LowerCaseLetters == "abcdefghijklmnopqrstuvwxyz"

\* The position of character c in the string cs, or 0
CharPos(cs, c) ==
    IF \E i \in 1..Len(cs) : SubSeq(cs, i, i) = c
    THEN CHOOSE i \in 1..Len(cs) : SubSeq(cs, i, i) = c
    ELSE 0

\* String.prototype.toLowerCase, character by character
RECURSIVE toLowerCase(_)
toLowerCase(str) ==
    IF str = "" THEN ""
    ELSE LET c == SubSeq(str, 1, 1)
             u == CharPos(UpperCaseLetters, c)
         IN  (IF u > 0 THEN SubSeq(LowerCaseLetters, u, u) ELSE c)
             \o toLowerCase(SubSeq(str, 2, Len(str)))

\* String.prototype.startsWith and includes, on strings of characters
CharsStartWith(str, frag) == Len(str) >= Len(frag) /\ SubSeq(str, 1, Len(frag)) = frag

CharsInclude(str, frag) ==
    \E i \in 1..(Len(str) - Len(frag) + 1) : SubSeq(str, i, i + Len(frag) - 1) = frag

\* The collation order of the characters that occur in schema keys:
\* punctuation, then digits, then letters
CollationOrder == "_-0123456789abcdefghijklmnopqrstuvwxyz"

\* a.localeCompare(b) < 0 for two schema keys, character by character
RECURSIVE LocaleLess(_, _)
LocaleLess(a, b) ==
    IF a = "" THEN b # ""
    ELSE IF b = "" THEN FALSE
    ELSE LET x == CharPos(CollationOrder, SubSeq(a, 1, 1))
             y == CharPos(CollationOrder, SubSeq(b, 1, 1))
         IN  IF x # y THEN x < y
             ELSE LocaleLess(SubSeq(a, 2, Len(a)), SubSeq(b, 2, Len(b)))

\* priorityList.indexOf(key), 1-based; 0 when absent
IndexOfKeyIn(priorityList, key) ==
    IF \E i \in 1..Len(priorityList) : priorityList[i] = key
    THEN CHOOSE i \in 1..Len(priorityList) :
            /\ priorityList[i] = key
            /\ \A j \in 1..(i - 1) : priorityList[j] # key
    ELSE 0

\* The comparator of sortByPriority is negative (lines 1461-1469); a and b are
\* keys paired with their index in the priority list
PriorityBefore(a, b) ==
    IF a.idx # 0 /\ b.idx # 0 THEN a.idx < b.idx
    ELSE IF a.idx # 0 THEN TRUE
    ELSE IF b.idx # 0 THEN FALSE
    ELSE LocaleLess(Chars(a.key), Chars(b.key))

\* A sortByPriority that leaves the keys in the order of the schema
sortByPriorityUnsorted(keys, priorityList) == keys

\* AutocompleteEngine.sortByPriority (lines 1459-1471).  The comparator
\* orders distinct keys totally, so Array.prototype.sort puts every key at
\* the position given by the number of keys that precede it.
sortByPriority(keys, priorityList) ==
    LET n == Len(keys)
        indexed == SubSeq([i \in 1..n |->
                      [key |-> keys[i], idx |-> IndexOfKeyIn(priorityList, keys[i])]],
                          1, n)
        rank == SubSeq([i \in 1..n |->
                   Cardinality({j \in 1..n : PriorityBefore(indexed[j], indexed[i])})],
                       1, n)
    IN  [p \in 1..n |-> keys[CHOOSE i \in 1..n : rank[i] = p - 1]]

\* The choice of the priority list in getKeySuggestions (lines 1384-1424)
PriorityListFor(path) ==
    LET lastKey == path[Len(path)]
    IN  IF Len(path) = 0 THEN AutocompleteEngine.topLevelKeyPriority
        ELSE IF path[1] = <<"services">> /\ Len(path) >= 2
        THEN IF Len(path) = 2 THEN AutocompleteEngine.serviceKeyPriority
             ELSE IF lastKey = <<"deploy">> THEN AutocompleteEngine.deployKeyPriority
             ELSE IF lastKey = <<"healthcheck">> THEN AutocompleteEngine.healthcheckKeyPriority
             ELSE IF lastKey = <<"resources">> THEN AutocompleteEngine.resourcesKeyPriority
             ELSE IF lastKey = <<"placement">> THEN AutocompleteEngine.placementKeyPriority
             ELSE IF lastKey \in {<<"update_config">>, <<"rollback_config">>}
                  THEN AutocompleteEngine.updateConfigKeyPriority
             ELSE IF lastKey = <<"restart_policy">> THEN AutocompleteEngine.restartPolicyKeyPriority
             ELSE IF lastKey = <<"build">> THEN AutocompleteEngine.buildKeyPriority
             ELSE IF lastKey = <<"logging">> THEN AutocompleteEngine.loggingKeyPriority
             ELSE IF lastKey \in {<<"limits">>, <<"reservations">>}
                  THEN AutocompleteEngine.limitsKeyPriority
             ELSE AutocompleteEngine.serviceKeyPriority
        ELSE IF path[1] = <<"networks">> /\ Len(path) >= 2 THEN AutocompleteEngine.networkKeyPriority
        ELSE IF path[1] = <<"volumes">> /\ Len(path) >= 2 THEN AutocompleteEngine.volumeKeyPriority
        ELSE IF path[1] \in {<<"secrets">>, <<"configs">>} /\ Len(path) >= 2
             THEN AutocompleteEngine.secretKeyPriority
        ELSE AutocompleteEngine.topLevelKeyPriority

\* The value undefined in the place of a schema
UndefinedSchema == [undef |-> TRUE]

IsUndefinedSchema(schema) == "undef" \in DOMAIN schema

\* One iteration of the navigation loop (lines 1427-1434 and 1476-1483).  A
\* node with children yields children[key], else children['*'], else
\* undefined.  The root has no children property, and schema[key] is one of
\* its sections or an inherited function.  Any other node without children
\* stays, or yields one of its own properties (a description, a values
\* array): a value that has no children either.
SchemaStep(schema, key) ==
    IF schema.hasChildren
    THEN IF LookupKind(schema, key) # "none" THEN SchemaChild(schema, key)
         ELSE IF ChildPos(schema, STAR) > 0 THEN SchemaChild(schema, STAR)
         ELSE UndefinedSchema
    ELSE IF schema = DockerComposeSchema /\ LookupKind(schema, key) # "none"
         THEN SchemaChild(schema, key)
    ELSE schema

RECURSIVE SchemaAt(_, _, _)
SchemaAt(schema, path, i) ==
    IF i > Len(path) THEN schema
    ELSE LET next == SchemaStep(schema, path[i])
         IN  IF IsUndefinedSchema(next) THEN next ELSE SchemaAt(next, path, i + 1)

Suggestion(label, type) == [label |-> label, type |-> type]

\* AutocompleteEngine.getKeySuggestions (lines 1382-1457)
getKeySuggestions(context) ==
    LET schema == SchemaAt(DockerComposeSchema, context.path, 1)
        keys == IF IsUndefinedSchema(schema)
                THEN FilterOut(DockerComposeSchema.ckeys, <<"x">>)
                ELSE IF schema.hasChildren THEN FilterOut(schema.ckeys, STAR)
                ELSE <<>>
        sorted == sortByPriority(keys, PriorityListFor(context.path))
    IN  [i \in 1..Len(sorted) |-> Suggestion(sorted[i], "key")]

\* AutocompleteEngine.getValueSuggestions (lines 1473-1497).  The values of
\* the inherited constructor are a function, which has no map method.
getValueSuggestions(context, key) ==
    LET schema == SchemaAt(DockerComposeSchema, context.path, 1)
        known == /\ ~IsUndefinedSchema(schema)
                 /\ schema.hasChildren
                 /\ LookupKind(schema, key) # "none"
        keySchema == SchemaChild(schema, key)
    IN  IF known /\ keySchema.hasValues
        THEN IF IsFn(keySchema) THEN [list |-> <<>>, threw |-> TRUE]
             ELSE [list |-> [i \in 1..Len(keySchema.values) |->
                                Suggestion(keySchema.values[i], "value")],
                   threw |-> FALSE]
        ELSE [list |-> <<>>, threw |-> FALSE]

\* The first run of non-blank atoms of s
RECURSIVE NonBlankRun(_)
NonBlankRun(s) ==
    IF s = <<>> \/ IsWs(Head(s)) THEN <<>>
    ELSE <<Head(s)>> \o NonBlankRun(Tail(s))

\* The greatest j >= 2 with run[j] = ':', or 0
LastInnerColon(run) ==
    IF \E j \in 2..Len(run) : run[j] = COLON
    THEN CHOOSE j \in 2..Len(run) :
            /\ run[j] = COLON
            /\ \A k \in (j + 1)..Len(run) : run[k] # COLON
    ELSE 0

\* beforeCursor.match(/^\s*(\S+)\s*:/): group 1, or <<>> without a match.
\* The group takes the whole first run of non-blank characters when blanks
\* and a ':' follow it, and else the part of the run before its last ':'.
ValueKeyMatch(beforeCursor) ==
    LET run == NonBlankRun(LTrim(beforeCursor))
        after == LTrim(Drop(LTrim(beforeCursor), Len(run)))
    IN  IF run # <<>> /\ after # <<>> /\ Head(after) = COLON THEN run
        ELSE IF LastInnerColon(run) > 0 THEN Take(run, LastInnerColon(run) - 1)
        ELSE <<>>

\* s.split(':').pop()
RECURSIVE AfterLastColon(_)
AfterLastColon(s) ==
    IF Includes(s, COLON) THEN AfterLastColon(Drop(s, IndexOf(s, COLON) + 1)) ELSE s

\* typed (lines 1303-1305)
Typed(beforeCursor) ==
    IF Includes(beforeCursor, COLON) THEN Trim(AfterLastColon(beforeCursor))
    ELSE IF Trim(beforeCursor) # <<>> /\ Head(Trim(beforeCursor)) = DASH
         THEN LTrim(Tail(Trim(beforeCursor)))
    ELSE Trim(beforeCursor)

LabelStartsWith(s, lower) == CharsStartWith(toLowerCase(Chars(s.label)), lower)

LabelMatches(s, lower) ==
    \/ CharsStartWith(toLowerCase(Chars(s.label)), lower)
    \/ CharsInclude(toLowerCase(Chars(s.label)), lower)

\* The filter of getSuggestions without the sort that follows it
FilterTypedUnsorted(list, lower) ==
    LET Matches(s) == LabelMatches(s, lower)
    IN  SelectSeq(list, Matches)

\* The filter and the sort of getSuggestions (lines 1307-1320); the sort is
\* stable, so it puts the labels that start with the fragment first and keeps
\* the order within both groups
FilterTyped(list, lower) ==
    LET Matches(s) == LabelMatches(s, lower)
        Starts(s) == LabelStartsWith(s, lower)
        Others(s) == ~LabelStartsWith(s, lower)
        kept == SelectSeq(list, Matches)
    IN  SelectSeq(kept, Starts) \o SelectSeq(kept, Others)

maxSuggestions == 15

\* AutocompleteEngine.getSuggestions (lines 1278-1324) for a cursor on line
\* cursor of lines, after col atoms
getSuggestions(lines, cursor, col) ==
    LET currentLine == lines[cursor]
        beforeCursor == Take(currentLine, col)
        indent == SearchNonWs(currentLine)
        isAfterColon == Includes(beforeCursor, COLON)
        trimmed == Trim(beforeCursor)
        isStartOfKey == /\ ~isAfterColon
                        /\ (indent = 0 \/ trimmed = <<>> \/ Head(trimmed) = DASH)
        Found(context, key) ==
            IF isStartOfKey \/ (~isAfterColon /\ Len(trimmed) > 0)
            THEN [list |-> getKeySuggestions(context), threw |-> FALSE]
            ELSE IF isAfterColon /\ key # <<>>
            THEN getValueSuggestions(context, key)
            ELSE [list |-> <<>>, threw |-> FALSE]
        Filtered(found, frag) ==
            IF frag # <<>>
            THEN FilterTyped(found.list, toLowerCase(Chars(frag)))
            ELSE found.list
        Returned(context, found, frag) ==
            [context |-> context, typed |-> frag, candidates |-> found.list,
             list |-> Take(Filtered(found, frag), maxSuggestions),
             threw |-> found.threw]
        From(context) ==
            Returned(context, Found(context, ValueKeyMatch(beforeCursor)),
                     Typed(beforeCursor))
    IN  From(getContext(lines, cursor))

-----------------------------------------------------------------------------
(* Inputs.  A document is a sequence of at most MaxLines lines drawn from  *)
(* a pool of lines; a line is an indentation followed by a body.           *)

MaxLines == 3

\* A line: n blanks followed by body
Ind(n, body) == [i \in 1..n |-> SP] \o body

\* The texts of 1 to n lines over a pool
Texts(pool, n) == UNION {[1..k -> pool] : k \in 1..n}

\* Lines exercising the structure handled by YamlParser.parse: keys with and
\* without value, list items, colon-less lines, blank and comment lines, a
\* tab, indents of 0 to 4, the key "length" and values that are not strings.
ParsePool ==
    { <<"a", COLON>>, <<"b", COLON, SP, DQ, "1", DQ>>, <<"junk">>, <<>>,
      <<"a", COLON, SP, "{}">>, <<HASH, SP, "c">>,
      <<TAB, "b", COLON, SP, "v">>,
      Ind(1, <<"b", COLON>>),
      Ind(2, <<"a", COLON>>), Ind(2, <<"b", COLON, SP, "v">>),
      Ind(2, <<DASH, SP, "v">>), Ind(2, <<DASH>>),
      Ind(2, <<DASH, SP, "a", COLON, SP, "v">>), Ind(2, <<DASH, SP, "b", COLON>>),
      Ind(2, <<"length", COLON, SP, "v">>), Ind(2, <<"junk">>),
      Ind(3, <<"b", COLON, SP, "v">>),
      Ind(4, <<"a", COLON, SP, "v">>), Ind(4, <<DASH, SP, "v">>),
      Ind(4, <<"b", COLON>>) }

\* Lines of Docker Compose documents: top-level sections, services, service
\* keys, keys that belong elsewhere, unknown keys and version values.
ComposePool ==
    { <<"services", COLON>>, <<"networks", COLON>>,
      <<"version", COLON, SP, "0">>, <<"version", COLON, SP, DQ, "9.9", DQ>>,
      <<"version", COLON, SP, DQ, "3.8", DQ>>, <<"version", COLON, SP, DQ, DQ>>,
      <<"web", COLON, SP, "1">>, <<"x", COLON, SP, "1">>,
      <<"image", COLON, SP, "nginx">>, <<"mode", COLON, SP, "global">>,
      <<"foo", COLON, SP, "1">>, <<"0", COLON, SP, "a">>,
      Ind(2, <<"web", COLON>>), Ind(2, <<"web", COLON, SP, "{}">>),
      Ind(2, <<"db", COLON, SP, "{}">>),
      Ind(2, <<DASH, SP, "x", COLON, SP, "1">>),
      Ind(4, <<"image", COLON, SP, "nginx">>), Ind(4, <<"foo", COLON, SP, "1">>),
      Ind(4, <<"restart", COLON, SP, "nope">>),
      Ind(4, <<"toString", COLON, SP, "1">>) }

NoContext == [path |-> <<>>, indent |-> -1]

\* getSuggestions has not been called
NoSuggestions ==
    /\ cursorCol = 0
    /\ typed = <<>>
    /\ candidates = <<>>
    /\ suggestions = <<>>

\* No editor has been constructed: the fields as the constructor first sets
\* them (lines 1521-1524)
NoEditor ==
    /\ editorValue = <<>>
    /\ textarea = <<>>
    /\ selectionStart = 0
    /\ selectionEnd = 0
    /\ isValid = TRUE
    /\ editorErrors = <<>>
    /\ parseErrors = <<>>
    /\ autocompleteVisible = FALSE
    /\ autocompleteItems = <<>>
    /\ autocompleteIndex = 0
    /\ timers = 0
    /\ emitted = <<>>

\* The state when parse is entered with the given text (lines 14-30)
ParseInit(t) ==
    /\ text = t
    /\ pc = "parse"
    /\ lineIdx = 0
    /\ stack = ParseStart.stack
    /\ result = ParseStart.result
    /\ errors = ParseStart.errors
    /\ indentUnit = ParseStart.indentUnit
    /\ lastIndent = ParseStart.lastIndent
    /\ verrors = <<>>
    /\ reparsed = ParseStart
    /\ cursorLine = 0
    /\ cursorContext = NoContext
    /\ NoSuggestions
    /\ NoEditor

Init == \E t \in Texts(ParsePool, MaxLines) : ParseInit(t)

InitCompose == \E t \in Texts(ComposePool, MaxLines) : ParseInit(t)

\* The local variables of parse
ParseState ==
    [stack |-> stack, result |-> result, errors |-> errors,
     indentUnit |-> indentUnit, lastIndent |-> lastIndent, threw |-> FALSE]

\* One iteration of the loop of YamlParser.parse (lines 31-181)
ParseStep ==
    /\ pc = "parse"
    /\ lineIdx < Len(text)
    /\ LET ps == ParseLine(ParseState, text, lineIdx)
       IN  /\ stack' = ps.stack
           /\ result' = ps.result
           /\ errors' = ps.errors
           /\ indentUnit' = ps.indentUnit
           /\ lastIndent' = ps.lastIndent
           /\ pc' = IF ps.threw THEN "threw" ELSE "parse"
    /\ lineIdx' = lineIdx + 1
    /\ UNCHANGED <<text, verrors, reparsed, cursorLine, cursorContext, editorVars, suggestVars>>

\* parse has returned { data: result, errors }; DockerComposeValidator.validate
\* is called with the text and the tree, as in DockerYamlEditor._validate
Validate ==
    /\ pc = "parse"
    /\ lineIdx = Len(text)
    /\ LET vs == validate(text, result)
       IN  /\ verrors' = vs.errors
           /\ pc' = IF vs.threw THEN "vthrew" ELSE "validated"
    /\ UNCHANGED <<text, lineIdx, stack, result, errors, indentUnit, lastIndent,
                   reparsed, cursorLine, cursorContext, editorVars, suggestVars>>

\* YamlParser.parse(YamlParser.stringify(result))
Reserialize ==
    /\ pc = "validated"
    /\ reparsed' = parse(SplitLines(stringify(result, 0)))
    /\ pc' = "done"
    /\ UNCHANGED <<text, lineIdx, stack, result, errors, indentUnit, lastIndent,
                   verrors, cursorLine, cursorContext, editorVars, suggestVars>>

\* DockerComposeValidator.validate is called a second time with the same text
\* and the same tree
Revalidate ==
    /\ pc \in {"validated", "vthrew"}
    /\ LET vs == validate(text, result)
       IN  /\ verrors' = vs.errors
           /\ pc' = IF vs.threw THEN "rethrew" ELSE "revalidated"
    /\ UNCHANGED <<text, lineIdx, stack, result, errors, indentUnit, lastIndent,
                   reparsed, cursorLine, cursorContext, editorVars, suggestVars>>

Next == ParseStep \/ Validate \/ Reserialize \/ Revalidate

Spec == Init /\ [][Next]_vars

SpecCompose == InitCompose /\ [][Next]_vars

\* Documents that vary the indentation: two bodies at every indent up to
\* MaxIndent, and the blank line
MaxIndent == 4

MaxIndentLines == 3

IndentPool ==
    {Ind(n, body) : n \in 0..MaxIndent,
                    body \in {<<"a", COLON>>, <<DASH, SP, "v">>}} \cup {<<>>}

InitIndent == \E t \in Texts(IndentPool, MaxIndentLines) : ParseInit(t)

SpecIndent == InitIndent /\ [][Next]_vars

\* Documents for repeated validation: valid and invalid keys and values at
\* the root and in a service, and a version whose conversion to a string throws
MaxRevalidateLines == 3

RevalidatePool ==
    { <<"services", COLON>>, Ind(2, <<"web", COLON>>),
      Ind(4, <<"foo", COLON, SP, "1">>), Ind(4, <<"restart", COLON, SP, "bad">>),
      <<"version", COLON, SP, DQ, "9.9", DQ>>, <<"version", COLON>>,
      Ind(2, <<"toString", COLON, SP, "1">>), <<"foo", COLON, SP, "1">>,
      <<"image", COLON, SP, "nginx">> }

InitRevalidate == \E t \in Texts(RevalidatePool, MaxRevalidateLines) : ParseInit(t)

SpecRevalidate == InitRevalidate /\ [][Next]_vars

\* Documents with tabs: a tab as the indent, tabs inside and at the end of the
\* content, a line of tabs only, a comment holding a tab, a colon-less line
\* ending in a tab, beside lines without any tab
MaxTabLines == 3

TabPool ==
    { <<"a", COLON>>,
      <<TAB, "b", COLON, SP, "v">>,
      Ind(2, <<"c", COLON, TAB, "v", TAB>>),
      <<TAB, TAB, DASH, SP, "v">>,
      <<"junk", TAB>>,
      <<TAB>>,
      <<HASH, TAB, "c">>,
      Ind(2, <<DASH, SP, "v">>) }

InitTabs == \E t \in Texts(TabPool, MaxTabLines) : ParseInit(t)

SpecTabs == InitTabs /\ [][Next]_vars

\* Documents for the container stack: at every indent up to MaxStackIndent a
\* key that can open a container, a bare list item and an inline list item
\* with an empty value, which push frames, beside the blank line
MaxStackIndent == 3

MaxStackLines == 3

StackPool ==
    {Ind(n, body) : n \in 0..MaxStackIndent,
                    body \in {<<"a", COLON>>, <<DASH>>, <<DASH, SP, "b", COLON>>}}
    \cup {<<>>}

InitStack == \E t \in Texts(StackPool, MaxStackLines) : ParseInit(t)

SpecStack == InitStack /\ [][Next]_vars

\* Documents for the lookahead of a key line: keys with an empty value
\* position at two indents, list items and keys with a value below them,
\* blank lines and comments in between
MaxLookaheadLines == 4

LookaheadPool ==
    { <<"a", COLON>>, Ind(2, <<"b", COLON>>),
      Ind(2, <<DASH, SP, "v">>), Ind(4, <<"c", COLON, SP, "v">>),
      Ind(2, <<DASH, "x", COLON, SP, "v">>),
      <<>>, Ind(4, <<HASH, SP, DASH>>) }

InitLookahead == \E t \in Texts(LookaheadPool, MaxLookaheadLines) : ParseInit(t)

SpecLookahead == InitLookahead /\ [][Next]_vars

-----------------------------------------------------------------------------
(* The cursor context of a document (AutocompleteEngine.getContext) *)

MaxContextLines == 4

ContextPool ==
    { <<"services", COLON>>, Ind(2, <<"web", COLON>>), Ind(4, <<"deploy", COLON>>),
      Ind(6, <<>>), Ind(2, <<>>), Ind(4, <<"image", COLON, SP, "nginx">>),
      Ind(2, <<DASH, SP, "b", COLON>>), <<"junk">>, <<HASH, SP, "c">>,
      Ind(2, <<"run", COLON, SP, "|">>) }

InitContext ==
    /\ text \in Texts(ContextPool, MaxContextLines)
    /\ pc = "context"
    /\ lineIdx = 0
    /\ stack = ParseStart.stack
    /\ result = ParseStart.result
    /\ errors = ParseStart.errors
    /\ indentUnit = ParseStart.indentUnit
    /\ lastIndent = ParseStart.lastIndent
    /\ verrors = <<>>
    /\ reparsed = ParseStart
    /\ cursorLine = 0
    /\ cursorContext = NoContext
    /\ NoSuggestions
    /\ NoEditor

\* getSuggestions calls getContext(lines, cursorLine) for the line of the cursor
ResolveContext ==
    /\ pc \in {"context", "resolved"}
    /\ \E c \in 1..Len(text) :
          /\ cursorLine' = c
          /\ cursorContext' = getContext(text, c)
    /\ pc' = "resolved"
    /\ UNCHANGED <<text, lineIdx, stack, result, errors, indentUnit, lastIndent,
                   verrors, reparsed, editorVars, suggestVars>>

NextContext == ResolveContext

SpecContext == InitContext /\ [][NextContext]_vars

-----------------------------------------------------------------------------
(* The suggestions at a cursor (AutocompleteEngine.getSuggestions) *)

\* A document is at most MaxPrefixLines lines that open mappings, followed by
\* a line that is being typed
MaxPrefixLines == 3

PrefixPool ==
    { <<"services", COLON>>, <<"networks", COLON>>, Ind(2, <<"web", COLON>>),
      Ind(4, <<"deploy", COLON>>), Ind(4, <<"foo", COLON>>) }

TypedLinePool ==
    { <<>>, Ind(6, <<>>), Ind(4, <<"e">>), Ind(4, <<DASH, SP, "RE">>),
      Ind(4, <<"restart", COLON, SP, "o">>), Ind(4, <<"cap_add", COLON, SP, "a">>),
      <<"version", COLON, SP>>, Ind(4, <<"constructor", COLON, SP>>) }

SuggestTexts ==
    {prefix \o <<line>> : prefix \in Texts(PrefixPool, MaxPrefixLines) \cup {<<>>},
                          line \in TypedLinePool}

InitSuggest ==
    /\ text \in SuggestTexts
    /\ pc = "suggest"
    /\ lineIdx = 0
    /\ stack = ParseStart.stack
    /\ result = ParseStart.result
    /\ errors = ParseStart.errors
    /\ indentUnit = ParseStart.indentUnit
    /\ lastIndent = ParseStart.lastIndent
    /\ verrors = <<>>
    /\ reparsed = ParseStart
    /\ cursorLine = 0
    /\ cursorContext = NoContext
    /\ NoSuggestions
    /\ NoEditor

\* AutocompleteEngine.getSuggestions(text, cursorLine, cursorCol) for a cursor
\* in the line that is being typed; the lines after the cursor are not read
GetSuggestions ==
    /\ pc = "suggest"
    /\ \E c \in {Len(text)} : \E col \in 0..Len(text[c]) :
         \E out \in {getSuggestions(text, c, col)} :
            /\ cursorLine' = c
            /\ cursorCol' = col
            /\ cursorContext' = out.context
            /\ typed' = out.typed
            /\ candidates' = out.candidates
            /\ suggestions' = out.list
            /\ pc' = IF out.threw THEN "sthrew" ELSE "suggested"
    /\ UNCHANGED <<text, lineIdx, stack, result, errors, indentUnit, lastIndent,
                   verrors, reparsed, editorVars>>

NextSuggest == GetSuggestions

SpecSuggest == InitSuggest /\ [][NextSuggest]_vars

-----------------------------------------------------------------------------
(* DockerYamlEditor.  The value of the editor is a string with line breaks:*)
(* a sequence of atoms in which NL stands for '\n'.  Offsets into it       *)
(* (selectionStart, selectionEnd) count atoms.                             *)

NL == "\n"

\* options.tabSize (line 1516)
tabSize == 2

MaxValueLen == 6

\* s.slice(a, b) for 0 <= a
Slice(s, a, b) == IF b <= a THEN <<>> ELSE Drop(Take(s, b), a)

\* s.split('\n')
RECURSIVE Split(_)
Split(s) ==
    IF ~Includes(s, NL) THEN <<s>>
    ELSE <<Take(s, IndexOf(s, NL))>> \o Split(Drop(s, IndexOf(s, NL) + 1))

\* s.lastIndexOf('\n', from): a negative from counts as 0
LastIndexOfNL(s, from) ==
    LET f == IF from < 0 THEN 0 ELSE from
        hits == {i \in 0..f : i < Len(s) /\ s[i + 1] = NL}
    IN  IF hits = {} THEN -1 ELSE CHOOSE i \in hits : \A j \in hits : j <= i

\* s.indexOf('\n', from)
IndexOfNLFrom(s, from) ==
    LET hits == {i \in from..(Len(s) - 1) : s[i + 1] = NL}
    IN  IF hits = {} THEN -1 ELSE CHOOSE i \in hits : \A j \in hits : i <= j

\* The lines of a document joined by '\n'
RECURSIVE Joined(_)
Joined(lines) ==
    IF Len(lines) = 0 THEN <<>>
    ELSE IF Len(lines) = 1 THEN lines[1]
    ELSE lines[1] \o <<NL>> \o Joined(Tail(lines))

\* Values given to the editor: valid documents, documents with an error and
\* with a warning only, and documents on which parse or validate throws
EditorValues ==
    { <<>>,
      Joined(<< <<"version", COLON, SP, DQ, "3.8", DQ>> >>),
      Joined(<< <<"version", COLON, SP, DQ, "9.9", DQ>> >>),
      Joined(<< <<"services", COLON>>, Ind(2, <<"web", COLON>>) >>),
      Joined(<< <<"foo", COLON, SP, "1">> >>),
      Joined(<< <<"junk">>, <<"version", COLON>>, Ind(2, <<"toString", COLON, SP, "1">>) >>),
      Joined(<< <<"a", COLON>>, Ind(2, <<DASH>>), Ind(2, <<"length", COLON, SP, "v">>) >>) }

MaxPopupLen == 13

\* Values given to the editor under SpecPopup: the popup offers keys at the
\* end of the first and values at the end of the second, getSuggestions
\* throws at the end of the third and parse throws on the last
PopupValues ==
    { Joined(<< <<"secrets", COLON>>, Ind(1, <<"s", COLON>>), Ind(2, <<>>) >>),
      Joined(<< <<"services", COLON>>, Ind(1, <<"w", COLON>>),
                Ind(2, <<"restart", COLON, SP>>) >>),
      Joined(<< <<"services", COLON>>, Ind(1, <<"w", COLON>>),
                Ind(2, <<"constructor", COLON, SP>>) >>),
      Joined(<< <<"a", COLON>>, Ind(2, <<DASH>>), Ind(2, <<"length", COLON, SP, "v">>) >>) }

\* SpecPopup keeps pc at "popup": its values are longer and fewer
PopupMode == pc = "popup"

\* The values given to the editor, and the length up to which its texts grow
ValuePool == IF PopupMode THEN PopupValues ELSE EditorValues

LenBound == IF PopupMode THEN MaxPopupLen ELSE MaxValueLen

\* Does a diagnostic make the document invalid (line 2069)
Blocks(e) == e.severity = "error" \/ e.severity = ""

\* The end of _validate (lines 2064-2075): validate has returned vs
Outcome(cur, parseResult, vs) ==
    IF vs.threw
    THEN [cur EXCEPT !.parseErrors = parseResult.errors, !.threw = TRUE]
    ELSE [isValid |-> SelectSeq(parseResult.errors \o vs.errors, Blocks) = <<>>,
          editorErrors |-> vs.errors,
          parseErrors |-> parseResult.errors,
          threw |-> FALSE]

\* _validate from line 2062 on: parse has returned parseResult
Parsed(lines, cur, parseResult) ==
    IF parseResult.threw THEN [cur EXCEPT !.threw = TRUE]
    ELSE Outcome(cur, parseResult, validate(lines, parseResult.result))

\* DockerYamlEditor._validate on value v (lines 2059-2076), from the fields
\* cur = [isValid, editorErrors, parseErrors].  An exception of parse or of
\* validate leaves the fields assigned before it and skips the rest.
ValidateOutcome(v, cur) == Parsed(Split(v), cur, parse(Split(v)))

\* The fields _validate reads and writes
Fields ==
    [isValid |-> isValid, editorErrors |-> editorErrors,
     parseErrors |-> parseErrors, threw |-> FALSE]

\* An event as a listener sees it: the payload (isValid and errors of
\* 'validate', value and isValid of 'change') and what getValue() returns
\* while the listener runs
Event(type, valid, value, errs, current) ==
    [type |-> type, isValid |-> valid, value |-> value, errors |-> errs,
     getValue |-> current]

\* The events in the order 'change', 'validate'
EmittedChangeFirst(out, v, triggerEvents) ==
    (IF triggerEvents THEN <<Event("change", out.isValid, v, <<>>, v)>> ELSE <<>>)
    \o <<Event("validate", out.isValid, <<>>, out.parseErrors \o out.editorErrors, v)>>

\* The events delivered by _validate (line 2075) and then by its caller
\* (lines 1663 and 2085-2087) when this._value is v
Emitted(out, v, triggerEvents) ==
    <<Event("validate", out.isValid, <<>>, out.parseErrors \o out.editorErrors, v)>>
    \o (IF triggerEvents THEN <<Event("change", out.isValid, v, <<>>, v)>> ELSE <<>>)

\* _validate() and the assignments of its results, followed by the rest of
\* the handler: the 'change' event if triggerEvents, and the visibility of
\* the popup the handler ends with.  An exception of _validate skips the
\* events and ends the handler with the visibility onThrow.
RunValidate(v, triggerEvents, visible, onThrow) ==
    \E out \in {ValidateOutcome(v, Fields)} :
        /\ isValid' = out.isValid
        /\ editorErrors' = out.editorErrors
        /\ parseErrors' = out.parseErrors
        /\ emitted' = IF out.threw THEN <<>> ELSE Emitted(out, v, triggerEvents)
        /\ autocompleteVisible' = IF out.threw THEN onThrow ELSE visible

\* The analysis variables play no part in the editor
EditorInit(v) ==
    /\ text = <<>>
    /\ lineIdx = 0
    /\ stack = ParseStart.stack
    /\ result = ParseStart.result
    /\ errors = ParseStart.errors
    /\ indentUnit = ParseStart.indentUnit
    /\ lastIndent = ParseStart.lastIndent
    /\ verrors = <<>>
    /\ reparsed = ParseStart
    /\ cursorLine = 0
    /\ cursorContext = NoContext
    /\ NoSuggestions
    /\ editorValue = v
    /\ textarea = v
    /\ selectionStart = Len(v)
    /\ selectionEnd = Len(v)
    /\ autocompleteVisible = FALSE
    /\ autocompleteItems = <<>>
    /\ autocompleteIndex = 0
    /\ timers = 0
    /\ emitted = <<>>

\* The fields as the constructor sets them before _init (lines 1522-1524)
ConstructedFields ==
    [isValid |-> TRUE, editorErrors |-> <<>>, parseErrors |-> <<>>, threw |-> FALSE]

\* new DockerYamlEditor(container, {initialValue: v}) has returned (lines
\* 1504-1540): _setValue(v, false) has run _validate, and _init has run it
\* once more on the same value, which assigns the same fields again.  A
\* constructor that throws leaves no editor.
InitEditor ==
    \E v \in EditorValues :
        \E out \in {ValidateOutcome(v, ConstructedFields)} :
            /\ ~out.threw
            /\ pc = "editor"
            /\ EditorInit(v)
            /\ isValid = out.isValid
            /\ editorErrors = out.editorErrors
            /\ parseErrors = out.parseErrors

\* _handleInput (lines 1658-1664) once the text area holds t
HandleInput(t) ==
    /\ editorValue' = t
    /\ RunValidate(t, TRUE, autocompleteVisible, autocompleteVisible)

\* editor.setValue(v) (lines 2078-2088, 2111-2113); assigning the value of a
\* text area puts the cursor at its end
SetValue ==
    \E v \in ValuePool :
        /\ textarea' = v
        /\ selectionStart' = Len(v)
        /\ selectionEnd' = Len(v)
        /\ HandleInput(v)
        /\ UNCHANGED <<analysisVars, suggestVars, popupVars>>

\* The user pastes, cuts or deletes: the text area holds a new text with
\* the cursor somewhere in it, and the input event runs _handleInput
Input ==
    \E t \in EditorValues : \E c \in {0, Len(t)} :
        /\ textarea' = t
        /\ selectionStart' = c
        /\ selectionEnd' = c
        /\ HandleInput(t)
        /\ UNCHANGED <<analysisVars, suggestVars, popupVars>>

\* The user clicks in the text area, or selects from a place to its end
Select ==
    \E a \in 0..Len(textarea) : \E b \in {a, Len(textarea)} :
        /\ selectionStart' = a
        /\ selectionEnd' = b
        /\ UNCHANGED <<analysisVars, suggestVars, editorValue, textarea, isValid,
                       editorErrors, parseErrors, autocompleteVisible, popupVars,
                       emitted>>

\* ' '.repeat(this.options.tabSize)
TabSpaces == [i \in 1..tabSize |-> SP]

\* _handleKeyDown for Tab without Shift (lines 1668-1672, 1688-1694)
KeyTab ==
    /\ Len(editorValue) + tabSize <= LenBound
    /\ LET t == Take(editorValue, selectionStart) \o TabSpaces
                \o Drop(editorValue, selectionEnd)
       IN  /\ textarea' = t
           /\ selectionStart' = selectionStart + tabSize
           /\ selectionEnd' = selectionStart + tabSize
           /\ HandleInput(t)
    /\ UNCHANGED <<analysisVars, suggestVars, popupVars>>

\* _handleKeyDown for Shift+Tab (lines 1674-1686).  Assigning a negative
\* selectionStart is resolved by the browser: the cursor lands on one of
\* the two ends of the text.
KeyShiftTab ==
    LET start == selectionStart
        lines == Split(editorValue)
        lineStart == LastIndexOfNL(editorValue, start - 1) + 1
        lineEnd == IndexOfNLFrom(editorValue, start)
        currentLine == lines[Len(Split(Take(editorValue, start)))]
        t == Take(editorValue, lineStart) \o Drop(currentLine, tabSize)
             \o Drop(editorValue, IF lineEnd = -1 THEN Len(editorValue) ELSE lineEnd)
    IN  /\ StartsWith(currentLine, TabSpaces)
        /\ textarea' = t
        /\ \E c \in (IF start - tabSize >= 0 THEN {start - tabSize} ELSE {0, Len(t)}) :
              /\ selectionStart' = c
              /\ selectionEnd' = c
        /\ HandleInput(t)
        /\ UNCHANGED <<analysisVars, suggestVars, popupVars>>

\* currentLine.match(/^\s*/)[0]
LeadingWs(s) == Take(s, Len(s) - Len(LTrim(s)))

\* An edit of a key handler: the text and the cursor it gives the text area
Edit(t, c) == [t |-> t, cursor |-> c, inAtoms |-> TRUE]

\* The text area gets the edit and _handleInput runs; the handler ends with
\* the popup at the given visibility
ApplyEdit(edit, visible, onThrow) ==
    /\ textarea' = edit.t
    /\ selectionStart' = edit.cursor
    /\ selectionEnd' = edit.cursor
    /\ editorValue' = edit.t
    /\ RunValidate(edit.t, TRUE, visible, onThrow)

\* Enter with the popup closed (lines 1736-1749): a new line with the
\* indentation of the current one
EnterEdit ==
    LET start == selectionStart
        lineStart == LastIndexOfNL(editorValue, start - 1) + 1
        currentLine == Slice(editorValue, lineStart, start)
        indent == LeadingWs(currentLine)
        extraIndent == IF EndsWith(Trim(currentLine), <<COLON>>) THEN <<SP, SP>> ELSE <<>>
    IN  Edit(Take(editorValue, start) \o <<NL>> \o indent \o extraIndent
                \o Drop(editorValue, start),
             start + 1 + Len(indent) + Len(extraIndent))

\* A key the handler does not take: the text area replaces the selection by
\* the characters of the key
DefaultEdit(chars) ==
    Edit(Take(editorValue, selectionStart) \o chars \o Drop(editorValue, selectionEnd),
         selectionStart + Len(chars))

\* Is atom a part of a word: not a character that is an atom of its own
IsWordAtom(a) == ~(a \in Specials) /\ a # NL

\* The characters of /[a-zA-Z_\-\.0-9]/
IdentChars == "_-.0123456789" \o LowerCaseLetters \o UpperCaseLetters

IsIdentChar(c) == CharPos(IdentChars, c) > 0

\* Does every character of atom a match /[a-zA-Z_\-\.0-9]/
IsIdentAtom(a) ==
    \/ a = DASH
    \/ IsWordAtom(a) /\ \A i \in 1..Len(a) : IsIdentChar(SubSeq(a, i, i))

\* Does a word end with a character of /[a-zA-Z_\-\.0-9]/ without
\* consisting of such characters
EndsInsideIdent(a) ==
    IsWordAtom(a) /\ ~IsIdentAtom(a) /\ IsIdentChar(SubSeq(a, Len(a), Len(a)))

\* The number of atoms of beforeCursor.match(/[a-zA-Z_\-\.0-9]*$/)[0]
RECURSIVE IdentRun(_)
IdentRun(s) ==
    IF s = <<>> \/ ~IsIdentAtom(s[Len(s)]) THEN 0
    ELSE 1 + IdentRun(Take(s, Len(s) - 1))

\* a + b on texts with line breaks: two word parts that meet are one word
Glue(a, b) ==
    IF a # <<>> /\ b # <<>> /\ IsWordAtom(a[Len(a)]) /\ IsWordAtom(Head(b))
    THEN Take(a, Len(a) - 1) \o <<a[Len(a)] \o Head(b)>> \o Tail(b)
    ELSE a \o b

\* The atoms of an accepted text keep to the atoms of the text around it:
\* the match of the typed fragment does not start within a word, and the
\* inserted text does not run into a word after the cursor
AcceptInAtoms(insertStart, insertText) ==
    /\ insertStart > 0 => ~EndsInsideIdent(editorValue[insertStart])
    /\ selectionStart < Len(editorValue) =>
           ~(IsWordAtom(insertText[Len(insertText)])
             /\ IsWordAtom(editorValue[selectionStart + 1]))

\* The edit of _acceptAutocomplete(item) (lines 1853-1868)
AcceptEdit(item) ==
    LET pos == selectionStart
        beforeCursor == Take(editorValue, pos)
        afterCursor == Drop(editorValue, pos)
        insertStart == pos - IdentRun(beforeCursor)
        insertText == item.label \o (IF item.type = "key" THEN <<COLON, SP>> ELSE <<>>)
        inserted == Glue(Take(editorValue, insertStart), insertText)
    IN  [t |-> inserted \o afterCursor, cursor |-> Len(inserted),
         inAtoms |-> AcceptInAtoms(insertStart, insertText)]

\* _handleKeyDown for Enter (lines 1709-1715, 1734-1749): with the popup
\* open the selected item is accepted and the popup closes (lines 1869-1871);
\* reading the label of an item that does not exist throws.  An open popup
\* without items leaves the key to the text area.
KeyEnter ==
    IF autocompleteVisible /\ autocompleteItems # <<>>
       /\ ~(autocompleteIndex + 1 \in DOMAIN autocompleteItems)
    THEN UNCHANGED vars
    ELSE /\ \E edit \in {IF autocompleteVisible /\ autocompleteItems # <<>>
                         THEN AcceptEdit(autocompleteItems[autocompleteIndex + 1])
                         ELSE IF autocompleteVisible THEN DefaultEdit(<<NL>>)
                         ELSE EnterEdit} :
               /\ edit.inAtoms
               /\ Len(edit.t) <= LenBound
               /\ ApplyEdit(edit, IF autocompleteVisible /\ autocompleteItems # <<>>
                                  THEN FALSE ELSE autocompleteVisible,
                            autocompleteVisible)
         /\ UNCHANGED <<analysisVars, suggestVars, popupVars>>

\* A click on item k of the open popup (lines 1787-1791) accepts it; the
\* popup is a child of document.body, outside the container, so the click
\* listener of the document hides it whether accepting threw or not
ClickItem ==
    /\ autocompleteVisible
    /\ \E k \in DOMAIN autocompleteItems :
          \E edit \in {AcceptEdit(autocompleteItems[k])} :
              /\ edit.inAtoms
              /\ Len(edit.t) <= LenBound
              /\ ApplyEdit(edit, FALSE, FALSE)
    /\ UNCHANGED <<analysisVars, suggestVars, popupVars>>

\* The rest of the editor is as it was: the handler changes the popup only
PopupOnly ==
    UNCHANGED <<analysisVars, suggestVars, editorValue, textarea, selectionStart,
                selectionEnd, isValid, editorErrors, parseErrors, emitted>>

\* A click outside the container (lines 1623-1628)
ClickOutside ==
    /\ autocompleteVisible' = FALSE
    /\ UNCHANGED popupVars
    /\ PopupOnly

\* _handleKeyDown for Escape with the popup open (lines 1716-1720)
KeyEscape ==
    /\ autocompleteVisible
    /\ autocompleteVisible' = FALSE
    /\ UNCHANGED popupVars
    /\ PopupOnly

\* ArrowDown without the bound of the last item
KeyArrowDownUnclamped ==
    /\ autocompleteVisible
    /\ autocompleteIndex' = autocompleteIndex + 1
    /\ UNCHANGED <<autocompleteVisible, autocompleteItems, timers>>
    /\ PopupOnly

\* _handleKeyDown for ArrowDown with the popup open (lines 1697-1702)
KeyArrowDown ==
    /\ autocompleteVisible
    /\ autocompleteIndex' = IF autocompleteIndex + 1 < Len(autocompleteItems) - 1
                            THEN autocompleteIndex + 1
                            ELSE Len(autocompleteItems) - 1
    /\ UNCHANGED <<autocompleteVisible, autocompleteItems, timers>>
    /\ PopupOnly

\* _handleKeyDown for ArrowUp with the popup open (lines 1703-1708)
KeyArrowUp ==
    /\ autocompleteVisible
    /\ autocompleteIndex' = IF autocompleteIndex - 1 > 0 THEN autocompleteIndex - 1
                            ELSE 0
    /\ UNCHANGED <<autocompleteVisible, autocompleteItems, timers>>
    /\ PopupOnly

\* _showAutocomplete (lines 1752-1770).  An exception of getSuggestions
\* leaves the popup as it was.
ShowAutocomplete ==
    \E before \in {Split(Take(editorValue, selectionStart))} :
        \E lines \in {Split(editorValue)}, line \in {Len(before)},
           col \in {Len(before[Len(before)])} :
            \E found \in {getSuggestions(lines, line, col)} :
                IF found.threw
                THEN UNCHANGED <<autocompleteVisible, autocompleteItems,
                                 autocompleteIndex>>
                ELSE IF found.list = <<>>
                THEN /\ autocompleteVisible' = FALSE
                     /\ UNCHANGED <<autocompleteItems, autocompleteIndex>>
                ELSE /\ autocompleteItems' = found.list
                     /\ autocompleteIndex' = 0
                     /\ autocompleteVisible' = TRUE

\* _handleKeyDown for Ctrl+Space (lines 1723-1728)
KeyCtrlSpace ==
    /\ ShowAutocomplete
    /\ UNCHANGED timers
    /\ PopupOnly

\* A timer of line 1732 fires
TimerFires ==
    /\ timers > 0
    /\ timers' = timers - 1
    /\ ShowAutocomplete
    /\ PopupOnly

MaxTimers == 1

MaxTypedLen == 2

\* The keys of one character the user types
TypedKeys == {"n", SP}

\* _handleKeyDown for a key of one character without Ctrl (lines 1730-1733):
\* a timer for _showAutocomplete is set, no branch takes the key, and the
\* text area inserts the character and raises the input event.  A letter
\* typed after a word makes the word longer.
KeyChar ==
    \E key \in TypedKeys :
        \E typedTo \in {Glue(Take(editorValue, selectionStart), <<key>>)},
           after \in {Drop(editorValue, selectionEnd)} :
            /\ timers < MaxTimers
            /\ Len(typedTo) + Len(after) <= LenBound
            /\ Len(typedTo[Len(typedTo)]) <= MaxTypedLen
            /\ after # <<>> => ~(IsWordAtom(key) /\ IsWordAtom(Head(after)))
            /\ timers' = timers + 1
            /\ \E edit \in {Edit(typedTo \o after, Len(typedTo))} :
                  ApplyEdit(edit, autocompleteVisible, autocompleteVisible)
            /\ UNCHANGED <<analysisVars, suggestVars, autocompleteItems,
                           autocompleteIndex>>

\* The edits of a text with the popup closed
NextEditor == SetValue \/ Input \/ Select \/ KeyTab \/ KeyShiftTab \/ KeyEnter

SpecEditor == InitEditor /\ [][NextEditor]_vars

\* The constructor has returned with a value of PopupValues
InitPopup ==
    \E v \in PopupValues :
        \E out \in {ValidateOutcome(v, ConstructedFields)} :
            /\ ~out.threw
            /\ pc = "popup"
            /\ EditorInit(v)
            /\ isValid = out.isValid
            /\ editorErrors = out.editorErrors
            /\ parseErrors = out.parseErrors

\* The keys and the clicks at the end of the text, where the popup opens
NextPopup ==
    \/ SetValue \/ KeyTab \/ KeyEnter \/ KeyChar \/ TimerFires \/ KeyCtrlSpace
    \/ KeyArrowDown \/ KeyArrowUp \/ KeyEscape \/ ClickOutside \/ ClickItem

SpecPopup == InitPopup /\ [][NextPopup]_vars

-----------------------------------------------------------------------------
(* Properties *)

\* All diagnostics of the analysis so far: those of parse, then those of validate
AllDiagnostics == errors \o verrors

\* The sequence s restricted to the elements satisfying Test
Only(s, Test(_)) == SelectSeq(s, Test)

\* The index of the last content line before line i, 0 if there is none
PrevContent(lines, i) ==
    IF \E j \in 1..(i - 1) : ~IsSkipped(lines[j])
    THEN CHOOSE j \in 1..(i - 1) :
            /\ ~IsSkipped(lines[j])
            /\ \A k \in (j + 1)..(i - 1) : IsSkipped(lines[k])
    ELSE 0

\* C1: parse returns normally, it never throws, whatever the input contains.
ParseNeverThrows == pc # "threw"

\* C2: for a text parsed without structural diagnostics, parsing the text
\* that stringify makes of the tree gives a tree deep-equal to the tree.
RoundTrip ==
    (pc = "done" /\ errors = <<>>) =>
        (~reparsed.threw /\ reparsed.result = result)

\* The 'Indentation increased' diagnostics on line n
JumpsOn(n) ==
    LET IsJump(e) == e.message = "Indentation increased" /\ e.line = n
    IN  Only(errors, IsJump)

\* Line i is a content line indented by more than indentUnit deeper than the
\* previous content line, with indentUnit established
IsJumpLine(i) ==
    /\ ~IsSkipped(text[i])
    /\ PrevContent(text, i) > 0
    /\ indentUnit > 0
    /\ SearchNonWs(text[i]) - SearchNonWs(text[PrevContent(text, i)]) > indentUnit

\* C3: once indentUnit is established, a content line indented more than
\* indentUnit deeper than the previous content line gets exactly one
\* 'Indentation increased' diagnostic on that line.
IndentationLaw ==
    \A i \in 1..lineIdx : IsJumpLine(i) => Len(JumpsOn(i)) = 1

\* C3 happens: a line that jumps and is not a multiple of indentUnit was parsed
IndentationLawWitness ==
    \E i \in 1..lineIdx :
        /\ IsJumpLine(i)
        /\ SearchNonWs(text[i]) % indentUnit # 0
        /\ Len(JumpsOn(i)) = 1

\* C7: every diagnostic of parse and of validate has a severity 'error' or
\* 'warning', a message, and a line and a column that are at least 1.
DiagnosticShape ==
    \A n \in 1..Len(AllDiagnostics) :
        LET e == AllDiagnostics[n]
        IN  /\ e.severity \in {"error", "warning"}
            /\ e.message # ""
            /\ e.line >= 1
            /\ e.column >= 1

\* C8: every diagnostic of parse(text) and of validate(text, tree) has a line
\* between 1 and the number of lines of text.
DiagnosticLineInText ==
    pc \in {"validated", "done"} =>
        \A n \in 1..Len(AllDiagnostics) : AllDiagnostics[n].line \in 1..Len(text)

\* The lines on which name is declared as a service: key lines for name,
\* indented, that follow a root-level 'services:' line with only indented
\* or skipped lines in between
DeclarationLines(lines, name) ==
    {i \in 1..Len(lines) :
        /\ SearchNonWs(lines[i]) > 0
        /\ StartsWith(Trim(lines[i]), name \o <<COLON>>)
        /\ \E j \in 1..(i - 1) :
              /\ lines[j] = <<"services", COLON>>
              /\ \A k \in (j + 1)..(i - 1) :
                    IsSkipped(lines[k]) \/ SearchNonWs(lines[k]) > 0}

\* The 'must have either "image" or "build"' diagnostics for a service
MissingFor(name) ==
    LET IsMissing(e) == e.message = "must have either image or build" /\ e.key = name
    IN  Only(verrors, IsMissing)

\* The entries under services that are objects with neither image nor build
ServicesLackingImage ==
    LET services == GetProp(result, <<"services">>)
    IN  IF services.t # "obj" THEN {}
        ELSE {n \in 1..Len(services.ks) :
                /\ services.vs[n].t = "obj"
                /\ ~InSeq(services.vs[n].ks, <<"image">>)
                /\ ~InSeq(services.vs[n].ks, <<"build">>)}

\* C4: for every object-valued entry under services with neither image nor
\* build, validate emits exactly one 'must have either "image" or "build"'
\* error, on a line where the name of that service is declared.
RequiredFieldLaw ==
    pc \in {"validated", "done"} =>
        \A n \in ServicesLackingImage :
            LET name == GetProp(result, <<"services">>).ks[n]
            IN  /\ Len(MissingFor(name)) = 1
                /\ MissingFor(name)[1].severity = "error"
                /\ MissingFor(name)[1].line \in DeclarationLines(text, name)

\* The top-level keys of the schema as the documentation lists them
DocumentedTopLevelKeys ==
    { <<"version">>, <<"services">>, <<"networks">>, <<"volumes">>,
      <<"configs">>, <<"secrets">> }

\* The diagnostics of the top-level key check for the root key K
RootKeyDiags(K) ==
    LET IsForKey(e) ==
            /\ e.key = K
            /\ e.message \in {"should be inside a service definition",
                              "should be inside a deploy section",
                              "Unknown top-level key"}
    IN  Only(verrors, IsForKey)

\* The diagnostic the classification of root keys asks for
RootKeyClass(K) ==
    IF InWords(K, serviceOnlyKeys) THEN "should be inside a service definition"
    ELSE IF InWords(K, deployOnlyKeys) THEN "should be inside a deploy section"
    ELSE "Unknown top-level key"

\* C9: every root key that does not start with 'x-' and is not a top-level
\* key of the schema gets exactly one error, classified as service-only,
\* deploy-only or unknown, the last carrying the valid top-level keys.
RootKeysClassified ==
    pc \in {"validated", "done"} =>
        \A n \in 1..Len(result.ks) :
            LET K == result.ks[n]
            IN  (~StartsWith(K, <<"x", DASH>>) /\ K \notin DocumentedTopLevelKeys) =>
                    /\ Len(RootKeyDiags(K)) = 1
                    /\ RootKeyDiags(K)[1].severity = "error"
                    /\ RootKeyDiags(K)[1].message = RootKeyClass(K)
                    /\ RootKeyClass(K) = "Unknown top-level key" =>
                          {RootKeyDiags(K)[1].validKeys[m] :
                              m \in 1..Len(RootKeyDiags(K)[1].validKeys)}
                          = DocumentedTopLevelKeys

\* The 'Invalid version' diagnostics
VersionDiags ==
    LET IsVersion(e) == e.message = "Invalid version"
    IN  Only(verrors, IsVersion)

\* C10: a version key whose value, as text without quotes, is not a valid
\* version gets exactly one diagnostic, a warning carrying the valid
\* versions, whatever the value is (a number 0 and an empty string included).
VersionWarned ==
    (pc \in {"validated", "done"} /\ InSeq(result.ks, <<"version">>)) =>
        LET v == GetProp(result, <<"version">>)
        IN  (~StringThrows(v) /\ ~InSeq(validVersions, Without(JsString(v), {DQ, SQ}))) =>
                /\ Len(VersionDiags) = 1
                /\ VersionDiags[1].severity = "warning"
                /\ VersionDiags[1].validValues = validVersions

\* The key that a key line declares: the text before its first colon, after
\* the list marker if the line is a list item
DeclaredKey(line) ==
    LET t == Trim(line)
        u == IF StartsWith(t, <<DASH, SP>>) THEN LTrim(Drop(t, 2)) ELSE t
    IN  Trim(Take(u, IndexOf(u, COLON)))

\* A key line whose value position is empty
IsOpenKeyLine(line) ==
    /\ ~IsSkipped(line)
    /\ IndexOf(Trim(line), COLON) = Len(Trim(line)) - 1
    /\ DeclaredKey(line) # <<>>

\* The indent of the cursor line: of a blank line, its length
CursorIndent(line) == IF SearchNonWs(line) < 0 THEN Len(line) ELSE SearchNonWs(line)

\* The cursor is below an open key line and indented deeper than it
IsBelowOpenKey ==
    /\ pc = "resolved"
    /\ PrevContent(text, cursorLine) > 0
    /\ IsOpenKeyLine(text[PrevContent(text, cursorLine)])
    /\ CursorIndent(text[cursorLine]) > SearchNonWs(text[PrevContent(text, cursorLine)])

\* C5: when the last content line before the cursor line is a key line with
\* an empty value position and the cursor line is indented deeper, the path
\* of getContext ends with the key of that line.
ContextLaw ==
    IsBelowOpenKey =>
        /\ cursorContext.path # <<>>
        /\ cursorContext.path[Len(cursorContext.path)]
             = DeclaredKey(text[PrevContent(text, cursorLine)])

\* C5 happens: the cursor is on a blank line of six blanks below 'deploy:'
\* and the path is services, web, deploy
ContextLawWitness ==
    /\ IsBelowOpenKey
    /\ SearchNonWs(text[cursorLine]) < 0
    /\ cursorContext.path = << <<"services">>, <<"web">>, <<"deploy">> >>

\* What getErrors() returns (lines 2115-2117)
getErrors == parseErrors \o editorErrors

\* C6: after any sequence of edits, isValid is true exactly when getErrors()
\* holds no diagnostic whose severity is 'error' or missing.
ValidityLaw == isValid <=> (SelectSeq(getErrors, Blocks) = <<>>)

(***************************************************************************)
(* Unknown service keys                                                    *)
(***************************************************************************)

\* The 'Unknown service key' diagnostics naming key K and service name
UnknownServiceKeyDiags(name, K) ==
    LET IsForKey(e) ==
            /\ e.message = "Unknown service key"
            /\ e.key = K
            /\ e.ctx = name
    IN  Only(verrors, IsForKey)

\* The key names declared as children of the service schema
ServiceSchemaKeys == {serviceSchema.ckeys[m] : m \in 1..Len(serviceSchema.ckeys)}

\* C11: for every object-valued service and every key of it that does not
\* start with 'x-', validate emits exactly one 'Unknown service key' error
\* naming key and service and carrying all valid service keys when the key is
\* not a child of the service schema, and no such error when it is.
UnknownServiceKeysReported ==
    pc \in {"validated", "done"} =>
        LET services == GetProp(result, <<"services">>)
        IN  services.t = "obj" =>
              \A n \in 1..Len(services.ks) :
                services.vs[n].t = "obj" =>
                  \A m \in 1..Len(services.vs[n].ks) :
                    LET name == services.ks[n]
                        K == services.vs[n].ks[m]
                        ds == UnknownServiceKeyDiags(name, K)
                    IN  ~StartsWith(K, <<"x", DASH>>) =>
                          IF K \in ServiceSchemaKeys
                          THEN ds = <<>>
                          ELSE /\ Len(ds) = 1
                               /\ ds[1].severity = "error"
                               /\ ds[1].validKeys = serviceSchema.ckeys

(***************************************************************************)
(* Arrays are not schema-checked                                           *)
(***************************************************************************)

\* The keys of the mappings of tree v that do not lie inside an array value
RECURSIVE KeysOutsideArrays(_)
KeysOutsideArrays(v) ==
    IF v.t # "obj" THEN {}
    ELSE {v.ks[n] : n \in 1..Len(v.ks)}
         \cup UNION {KeysOutsideArrays(v.vs[n]) : n \in 1..Len(v.vs)}

\* C12: validate emits no 'Unknown key' or 'Unknown service key' diagnostic
\* for a key that lies inside an array value: every key such a diagnostic
\* names is a key of a mapping reached from the root through mappings only.
NoUnknownKeyInsideArrays ==
    pc \in {"validated", "done"} =>
        \A n \in 1..Len(verrors) :
            verrors[n].message \in {"Unknown key", "Unknown service key"} =>
                verrors[n].key \in KeysOutsideArrays(result)

(***************************************************************************)
(* Enumerated values                                                       *)
(***************************************************************************)

\* The enum entry has a bracketed placeholder suffix ('service:[service name]')
HasPlaceholder(entry) == \E i \in 1..Len(entry) : entry[i] \in BracketWords

\* The string equals an entry of values, or begins with the fixed prefix of an
\* entry that has a placeholder suffix
AllowedByEnum(config, values) ==
    \/ InSeq(values, config)
    \/ \E i \in 1..Len(values) :
          /\ HasPlaceholder(values[i])
          /\ StartsWithChars(config, SplitBracket(values[i]))

\* The 'Invalid value' diagnostics for key K holding the string config
InvalidValueDiags(K, config) ==
    LET IsForKey(e) ==
            /\ e.message = "Invalid value"
            /\ e.key = K
            /\ e.ctx = config
    IN  Only(verrors, IsForKey)

\* C13: a string value of a service key whose schema declares values is warned
\* about as 'Invalid value' unless it equals an enum entry or begins with the
\* fixed prefix of an entry with a bracketed placeholder; beginning with a
\* placeholder-free entry does not make it valid.
EnumValuesChecked ==
    pc \in {"validated", "done"} =>
        LET services == GetProp(result, <<"services">>)
        IN  services.t = "obj" =>
              \A n \in 1..Len(services.ks) :
                services.vs[n].t = "obj" =>
                  \A m \in 1..Len(services.vs[n].ks) :
                    LET K == services.vs[n].ks[m]
                        config == services.vs[n].vs[m]
                    IN  (/\ K \in ServiceSchemaKeys
                         /\ SchemaChild(serviceSchema, K).hasValues
                         /\ config.t = "str") =>
                          IF AllowedByEnum(config.s, SchemaChild(serviceSchema, K).values)
                          THEN InvalidValueDiags(K, config.s) = <<>>
                          ELSE /\ InvalidValueDiags(K, config.s) # <<>>
                               /\ \A i \in 1..Len(InvalidValueDiags(K, config.s)) :
                                     InvalidValueDiags(K, config.s)[i].severity = "warning"

(***************************************************************************)
(* Idempotence of validate                                                 *)
(***************************************************************************)

KeyBranch ==
    /\ pc = "suggested"
    /\ ~Includes(Take(text[cursorLine], cursorCol), COLON)

\* The node a path denotes: from the root, whose children are the top-level
\* keys, by the child of that name, else by the wildcard child; NoSchema
\* marks a path that does not resolve
RECURSIVE NodeAt(_, _, _)
NodeAt(node, path, i) ==
    IF i > Len(path) THEN [found |-> TRUE, node |-> node]
    ELSE IF i > 1 /\ ~node.hasChildren THEN [found |-> FALSE, node |-> NoSchema]
    ELSE IF ChildPos(node, path[i]) > 0
         THEN NodeAt(node.cvals[ChildPos(node, path[i])], path, i + 1)
    ELSE IF i > 1 /\ ChildPos(node, STAR) > 0
         THEN NodeAt(node.cvals[ChildPos(node, STAR)], path, i + 1)
    ELSE [found |-> FALSE, node |-> NoSchema]

\* The names of the children of a node, the wildcard left out
ChildNames(node) == {node.ckeys[i] : i \in 1..Len(node.ckeys)} \ {STAR}

\* The labels of the candidates
CandidateLabels == {candidates[i].label : i \in 1..Len(candidates)}

\* C15: for a context path that resolves in the schema the key suggestions
\* are exactly the non-wildcard child names of the node reached, each once;
\* for the empty path they are the six top-level keys, and for no other path
\* are the top-level keys what is offered.
KeySuggestionsAreChildren ==
    KeyBranch =>
        LET path == cursorContext.path
            at == NodeAt(DockerComposeSchema, path, 1)
        IN  /\ \A i \in 1..Len(candidates) : candidates[i].type = "key"
            /\ path = <<>> => CandidateLabels = DocumentedTopLevelKeys
            /\ (path # <<>> /\ at.found) =>
                  /\ CandidateLabels = ChildNames(at.node)
                  /\ Len(candidates) = Cardinality(ChildNames(at.node))
            /\ path # <<>> => CandidateLabels # DocumentedTopLevelKeys

\* The path [services, <service>, deploy]
IsDeployPath(path) ==
    Len(path) = 3 /\ path[1] = <<"services">> /\ path[3] = <<"deploy">>

BeforeCursor == Take(text[cursorLine], cursorCol)

\* getSuggestions has returned for a cursor behind a ':' with nothing typed
\* after it
ValuePosition ==
    /\ pc = "suggested"
    /\ Includes(BeforeCursor, COLON)
    /\ typed = <<>>

\* The key of the cursor line: what stands before its first ':'
LineKey == Trim(Take(BeforeCursor, IndexOf(BeforeCursor, COLON)))

\* The values a schema node declares, as suggestions
ValuesOf(node) == [i \in 1..Len(node.values) |-> Suggestion(node.values[i], "value")]

\* C17: in value position with nothing typed, getSuggestions returns the
\* values declared by the schema node of the key of the line in the context
\* of the cursor, in schema order and capped at 15, and nothing when the node
\* declares no values; this holds at the top level as well.
ValueSuggestionsAreDeclared ==
    ValuePosition =>
        LET at == NodeAt(DockerComposeSchema, cursorContext.path \o <<LineKey>>, 1)
        IN  IF at.found /\ at.node.hasValues
            THEN suggestions = Take(ValuesOf(at.node), maxSuggestions)
            ELSE suggestions = <<>>

(***************************************************************************)
(* The fragment filter and the cap                                         *)
(***************************************************************************)

\* The fragment typed at the cursor, in lower case
TypedLower == toLowerCase(Chars(typed))

\* The returned list has at most 15 entries, and with a fragment typed every
\* returned label contains the fragment, letter case ignored
CappedAndFiltered ==
    /\ Len(suggestions) <= maxSuggestions
    /\ typed # <<>> =>
          \A i \in 1..Len(suggestions) :
              CharsInclude(toLowerCase(Chars(suggestions[i].label)), TypedLower)

\* C18: getSuggestions returns at most 15 entries; with a non-empty fragment
\* typed every returned label contains it case-insensitively; and a call that
\* has nothing to suggest returns the empty list, it does not fail.
SuggestionsCappedAndFiltered ==
    /\ pc = "suggested" => CappedAndFiltered
    /\ pc # "sthrew"

\* The position of a suggestion in candidates (0 if it is none of them)
CandidatePos(s) ==
    IF \E i \in 1..Len(candidates) : candidates[i] = s
    THEN CHOOSE i \in 1..Len(candidates) :
            candidates[i] = s /\ \A j \in 1..(i - 1) : candidates[j] # s
    ELSE 0

\* C19: with a non-empty fragment, in the returned list every label that
\* starts with the fragment precedes every label that only contains it,
\* within both groups the candidates keep their order, and the cap of 15 is
\* applied last: a candidate that starts with the fragment is left out only
\* when all 15 returned labels start with it.
StartsWithFirst ==
    (pc = "suggested" /\ typed # <<>>) =>
        LET n == Len(suggestions)
            starts == SubSeq([i \in 1..n |-> LabelStartsWith(suggestions[i], TypedLower)],
                             1, n)
            pos == SubSeq([i \in 1..n |-> CandidatePos(suggestions[i])], 1, n)
        IN  /\ \A i \in 1..n : pos[i] > 0
            /\ \A i, j \in 1..n :
                  i < j =>
                    /\ starts[j] => starts[i]
                    /\ (starts[i] = starts[j]) => pos[i] < pos[j]
            /\ \A k \in 1..Len(candidates) :
                  (/\ LabelStartsWith(candidates[k], TypedLower)
                   /\ \A i \in 1..n : pos[i] # k) =>
                     (n = maxSuggestions /\ \A i \in 1..n : starts[i])
            /\ \A k \in 1..Len(candidates) :
                  (/\ LabelMatches(candidates[k], TypedLower)
                   /\ \A i \in 1..n : pos[i] # k) => n = maxSuggestions

\* A fragment is typed, the list returned is cut at 15, and it holds labels
\* that start with the fragment followed by labels that only contain it
StartsWithFirstWitness ==
    /\ pc = "suggested"
    /\ typed # <<>>
    /\ Len(suggestions) = maxSuggestions
    /\ LabelStartsWith(suggestions[1], TypedLower)
    /\ ~LabelStartsWith(suggestions[maxSuggestions], TypedLower)
    /\ \E k \in 1..Len(candidates) :
          /\ LabelMatches(candidates[k], TypedLower)
          /\ \A i \in 1..Len(suggestions) : suggestions[i] # candidates[k]

-----------------------------------------------------------------------------
(* Tabs (YamlParser.parse, lines 28-37) *)

\* The diagnostics about tabs that errs holds for line i
TabDiags(errs, i) ==
    LET IsTabDiag(d) == d.message = "Tabs are not allowed" /\ d.line = i
    IN  Only(errs, IsTabDiag)

\* The number of characters of a string
RECURSIVE CharCount(_)
CharCount(s) == IF s = <<>> THEN 0 ELSE Len(Head(s)) + CharCount(Tail(s))

\* The column, counted in characters from 1, of the first tab of a line
FirstTabColumn(line) == CharCount(Take(line, IndexOf(line, TAB))) + 1

\* Every key of a tree, those set on arrays and inside list items included
RECURSIVE AllKeys(_)
AllKeys(v) ==
    IF v.t = "obj" \/ v.t = "arr"
    THEN {v.ks[i] : i \in 1..Len(v.ks)}
         \cup UNION {AllKeys(v.vs[i]) : i \in 1..Len(v.vs)}
         \cup (IF v.t = "arr" THEN UNION {AllKeys(v.it[i]) : i \in 1..Len(v.it)} ELSE {})
    ELSE {}

-----------------------------------------------------------------------------
(* List items and their containers (YamlParser.parse, lines 69-135) *)

\* A list-item line: '- ' followed by something, or a bare '-'
IsListItemLine(line) ==
    StartsWith(Trim(line), <<DASH, SP>>) \/ Trim(line) = <<DASH>>

\* The frame on top of the stack once the frames at or above the indent of
\* line are popped, and the container it holds
EnclosingFrame(line) ==
    LET stk == PopStack(stack, SearchNonWs(line)) IN stk[Len(stk)]

ContainerOf(line) == GetPath(result, EnclosingFrame(line).path)

\* The 'List item found but parent is not a list' diagnostics of line i
ParentDiags(errs, i) ==
    LET IsParentDiag(d) ==
            d.message = "List item found but parent is not a list" /\ d.line = i
    IN  Only(errs, IsParentDiag)

\* C22: the step that reads a list-item line whose enclosing container is
\* not an array pushes exactly one 'List item found but parent is not a
\* list' error for the line and still integrates the item: the tree changes
\* and the step does not throw.
ListItemKeptUnderNonArray ==
    [][(/\ pc = "parse"
        /\ lineIdx < Len(text)
        /\ ~IsSkipped(text[lineIdx + 1])
        /\ IsListItemLine(text[lineIdx + 1])
        /\ ~IsArray(ContainerOf(text[lineIdx + 1])))
       => /\ Len(ParentDiags(errors', lineIdx + 1)) = 1
          /\ pc' = "parse"
          /\ result' # result]_vars

\* An inline list item '- key: value' with a value behind the colon
IsInlineItemLine(line) ==
    LET value == Trim(Drop(Trim(line), 2))
    IN  /\ StartsWith(Trim(line), <<DASH, SP>>)
        /\ ~IsQuoted(value)
        /\ IndexOf(value, COLON) > 0
        /\ Trim(Drop(value, IndexOf(value, COLON) + 1)) # <<>>

\* A key line: not a list item, with a colon behind a key
IsKeyLine(line) ==
    /\ ~IsSkipped(line)
    /\ ~StartsWith(Trim(line), <<DASH>>)
    /\ IndexOf(Trim(line), COLON) > 0

\* The last element of an array
LastItem(arr) == arr.it[Len(arr.it)]

\* C23: when the last content line read is an inline list item '- key: value'
\* that was appended to an array, a key line that follows at a deeper indent
\* is assigned to that list-item object: after the step the last element of
\* the array has the key, and the array itself has no new property.
InlineItemStaysOpen ==
    [][(/\ pc = "parse"
        /\ lineIdx < Len(text)
        /\ PrevContent(text, lineIdx + 1) > 0
        /\ PrevContent(text, lineIdx + 1) <= lineIdx
        /\ IsInlineItemLine(text[PrevContent(text, lineIdx + 1)])
        /\ IsArray(ContainerOf(text[PrevContent(text, lineIdx + 1)]))
        /\ IsKeyLine(text[lineIdx + 1])
        /\ SearchNonWs(text[lineIdx + 1])
              > SearchNonWs(text[PrevContent(text, lineIdx + 1)]))
       => LET prev == text[PrevContent(text, lineIdx + 1)]
              arr == ContainerOf(prev)
              after == GetPath(result', EnclosingFrame(prev).path)
          IN  /\ pc' = "parse"
              /\ IsArray(after)
              /\ after.ks = arr.ks
              /\ Len(after.it) = Len(arr.it)
              /\ KeyPos(LastItem(after), DeclaredKey(text[lineIdx + 1])) > 0]_vars

-----------------------------------------------------------------------------
(* The lookahead of a key line (YamlParser.parse, lines 143-168) *)

\* The index of the first line after line i that is neither blank nor a
\* comment, 0 if there is none
FollowingContent(lines, i) ==
    IF \E j \in (i + 1)..Len(lines) : ~IsSkipped(lines[j])
    THEN CHOOSE j \in (i + 1)..Len(lines) :
            /\ ~IsSkipped(lines[j])
            /\ \A k \in (i + 1)..(j - 1) : IsSkipped(lines[k])
    ELSE 0

\* Line i has a following content line that is indented deeper
HasDeeperContent(lines, i) ==
    /\ FollowingContent(lines, i) > 0
    /\ SearchNonWs(lines[FollowingContent(lines, i)]) > SearchNonWs(lines[i])

-----------------------------------------------------------------------------
(* Lines without a colon (YamlParser.parse, lines 67-75 and 176-179) *)

\* A content line with no colon and no list marker
IsColonlessLine(line) ==
    /\ ~IsSkipped(line)
    /\ IndexOf(Trim(line), COLON) = -1
    /\ ~StartsWith(Trim(line), <<DASH>>)

\* The 'Invalid YAML syntax' diagnostics of line i
SyntaxDiags(errs, i) ==
    LET IsSyntaxDiag(d) == d.message = "Invalid YAML syntax" /\ d.line = i
    IN  Only(errs, IsSyntaxDiag)

\* C25: once parse has read the whole text, every content line with no colon
\* and no list marker has one 'Invalid YAML syntax' diagnostic, and the tree is
\* the tree that parse returns for the text with that line replaced by a blank
\* line.
ColonlessLineIgnored ==
    (pc = "parse" /\ lineIdx = Len(text)) =>
        \A i \in 1..Len(text) :
            IsColonlessLine(text[i]) =>
                /\ Len(SyntaxDiags(errors, i)) = 1
                /\ \A blanked \in {parse([text EXCEPT ![i] = <<>>])} :
                      ~blanked.threw => result = blanked.result

-----------------------------------------------------------------------------
(* The indentation unit (YamlParser.parse, lines 39-54) *)

\* The content lines with a nonzero indent among the first n lines
IndentedLines(lines, n) ==
    {i \in 1..n : ~IsSkipped(lines[i]) /\ SearchNonWs(lines[i]) > 0}

\* The indent of the first content line with a nonzero indent among the first
\* n lines, 0 if there is none
FirstIndent(lines, n) ==
    IF IndentedLines(lines, n) = {} THEN 0
    ELSE SearchNonWs(lines[CHOOSE i \in IndentedLines(lines, n) :
                              \A j \in IndentedLines(lines, n) : i <= j])

\* The 'Inconsistent indentation' diagnostics of line i
InconsistentOn(errs, i) ==
    LET IsInconsistent(d) == d.message = "Inconsistent indentation" /\ d.line = i
    IN  Only(errs, IsInconsistent)

\* Line i is a content line whose nonzero indent is not a multiple of unit
IsOffUnitLine(lines, i, unit) ==
    /\ i \in IndentedLines(lines, i)
    /\ unit > 0
    /\ SearchNonWs(lines[i]) % unit # 0

\* While parse runs, indentUnit is the indent of the first indented content
\* line read so far, and each line read has one 'Inconsistent indentation'
\* error if its indent is not a multiple of it and none otherwise
IndentUnitState ==
    pc = "parse" =>
        /\ indentUnit = FirstIndent(text, lineIdx)
        /\ \A i \in 1..lineIdx :
              /\ Len(InconsistentOn(errors, i))
                    = (IF IsOffUnitLine(text, i, indentUnit) THEN 1 ELSE 0)
              /\ IsOffUnitLine(text, i, indentUnit) =>
                    /\ InconsistentOn(errors, i)[1].a = indentUnit
                    /\ InconsistentOn(errors, i)[1].b = SearchNonWs(text[i])

\* The step that reads a line whose indent is not a multiple of indentUnit
\* integrates it at its literal indent: the frames at or above that indent
\* are popped, a key line sets its key in the container then on top, a list
\* item is appended to it if it is an array, and lastIndent is the indent
IndentUnitStep ==
    (/\ pc = "parse"
     /\ lineIdx < Len(text)
     /\ IsOffUnitLine(text, lineIdx + 1, indentUnit'))
    => LET line == text[lineIdx + 1]
           popped == PopStack(stack, SearchNonWs(line))
           before == ContainerOf(line)
           after == GetPath(result', EnclosingFrame(line).path)
       IN  /\ pc' = "parse"
           /\ indentUnit' = indentUnit
           /\ lastIndent' = SearchNonWs(line)
           /\ Len(stack') >= Len(popped)
           /\ SubSeq(stack', 1, Len(popped)) = popped
           /\ \A k \in (Len(popped) + 1)..Len(stack') :
                 stack'[k].indent = SearchNonWs(line)
           /\ IsKeyLine(line) => GetProp(after, DeclaredKey(line)) # Undef
           /\ (IsListItemLine(line) /\ IsArray(before)) =>
                 Len(after.it) = Len(before.it) + 1

-----------------------------------------------------------------------------
(* The container stack (YamlParser.parse, lines 16-17, 69-75, 98-134) *)

\* The root frame is at the bottom and the indents of the frames strictly
\* increase from bottom to top
StackOrdered(stk) ==
    /\ Len(stk) >= 1
    /\ stk[1] = Frame(-1, <<>>)
    /\ \A k \in 1..(Len(stk) - 1) : stk[k].indent < stk[k + 1].indent

\* For the content line about to be read, the stack after the pop: it still
\* has the root frame, its frames are the bottom frames of the stack, its top
\* frame has an indent strictly below the indent of the line, and every frame
\* that was popped has an indent at or above it
PopFindsEnclosing ==
    (pc = "parse" /\ lineIdx < Len(text) /\ ~IsSkipped(text[lineIdx + 1])) =>
        LET indent == SearchNonWs(text[lineIdx + 1])
            popped == PopStack(stack, indent)
        IN  /\ Len(popped) >= 1
            /\ popped = SubSeq(stack, 1, Len(popped))
            /\ popped[Len(popped)].indent < indent
            /\ \A k \in (Len(popped) + 1)..Len(stack) : stack[k].indent >= indent

\* C29: at every step of parse the stack has the root frame (indent -1) at
\* the bottom and frame indents that strictly increase from bottom to top;
\* the pop for a content line with indent i never removes the root frame and
\* leaves on top the frame with the greatest indent below i, the nearest
\* enclosing open container.
StackDiscipline == StackOrdered(stack) /\ PopFindsEnclosing

\* Three frames are open, the top one for a list item, and a line that pops
\* two of them is about to be read
StackDisciplineWitness ==
    /\ pc = "parse"
    /\ lineIdx = 2
    /\ Len(text) = 3
    /\ Len(stack) = 3
    /\ Len(stack[3].path) = 2
    /\ ~IsSkipped(text[3])
    /\ Len(PopStack(stack, SearchNonWs(text[3]))) = 1

-----------------------------------------------------------------------------
(* The keys of a context path (AutocompleteEngine.getContext) *)

\* A line that declares a key whose value position is empty or holds a
\* block-scalar marker
OpensBlock(line) ==
    /\ ~IsSkipped(line)
    /\ IndexOf(Trim(line), COLON) >= 1
    /\ Trim(Drop(Trim(line), IndexOf(Trim(line), COLON) + 1))
          \in {<<>>, <<"|">>, <<">">>, <<"|", DASH>>, <<">", DASH>>}

\* The ways to take the keys of path, in order, from lines before the cursor
\* line that open a block at an indent below limit
PathOrigins(lines, cursor, path, limit) ==
    {f \in [1..Len(path) -> 1..(cursor - 1)] :
        /\ \A k \in 1..(Len(path) - 1) : f[k] < f[k + 1]
        /\ \A k \in 1..Len(path) :
              /\ OpensBlock(lines[f[k]])
              /\ DeclaredKey(lines[f[k]]) = path[k]
              /\ SearchNonWs(lines[f[k]]) < limit}

\* C27: the keys of the path that getContext returns are taken, in order,
\* from lines strictly before the cursor line whose value position is empty or
\* a block-scalar marker (never from a line with an inline value), each
\* recorded at an indent strictly below the indent of the cursor line; a
\* cursor line at indent 0 gets the empty path.
ContextPathKeys ==
    pc = "resolved" =>
        /\ PathOrigins(text, cursorLine, cursorContext.path,
                       CursorIndent(text[cursorLine])) # {}
        /\ CursorIndent(text[cursorLine]) = 0 => cursorContext.path = <<>>

\* Below 'web:', a key with an inline value and a key with a block-scalar
\* marker, the cursor on a line of six blanks: the path holds services, web
\* and the key with the marker
ContextPathKeysWitness ==
    /\ pc = "resolved"
    /\ cursorLine = 4
    /\ text = << <<"services", COLON>>, Ind(4, <<"image", COLON, SP, "nginx">>),
                 Ind(2, <<"run", COLON, SP, "|">>), Ind(6, <<>>) >>
    /\ cursorContext.path = << <<"services">>, <<"run">> >>

-----------------------------------------------------------------------------
(* getContext against the stack of parse *)

\* The state of parse once it has read the first n lines of the text
RECURSIVE ParsePrefix(_, _)
ParsePrefix(lines, n) ==
    IF n = 0 THEN ParseStart
    ELSE LET before == ParsePrefix(lines, n - 1)
         IN  IF before.threw THEN before ELSE ParseLine(before, lines, n - 1)

\* A frame that parse pushed for a list item without a key: its object is an
\* element of an array
IsItemFrame(tree, frame) ==
    /\ frame.path # <<>>
    /\ IsArray(GetPath(tree, SubSeq(frame.path, 1, Len(frame.path) - 1)))
    /\ IsIndexKey(frame.path[Len(frame.path)])

\* The keys that opened the containers of the frames of stk above the root
\* frame, list-item frames left out
RECURSIVE OpeningKeys(_, _, _)
OpeningKeys(tree, stk, k) ==
    IF k > Len(stk) THEN <<>>
    ELSE (IF IsItemFrame(tree, stk[k]) THEN <<>>
          ELSE <<stk[k].path[Len(stk[k].path)]>>)
         \o OpeningKeys(tree, stk, k + 1)

\* C28: the path that getContext returns for a cursor line is the sequence of
\* keys that opened the containers on the stack of parse, once parse has read
\* the lines before the cursor line and the frames at or above the indent of
\* the cursor line are popped.
ContextFollowsParser ==
    pc = "resolved" =>
        \A ps \in {ParsePrefix(text, cursorLine - 1)} :
            ~ps.threw =>
                cursorContext.path
                  = OpeningKeys(ps.result,
                                PopStack(ps.stack, CursorIndent(text[cursorLine])), 2)

\* The validity _validate computes for the value the editor holds
ValidityOf(v) == ValidateOutcome(v, ConstructedFields)

\* The events of the last edit are 'validate' and then 'change', both seen
\* while getValue() returns the new value, and both carry the validity of
\* that value
EventsFresh ==
    \/ emitted = <<>>
    \/ /\ Len(emitted) = 2
       /\ emitted[1].type = "validate"
       /\ emitted[2].type = "change"
       /\ emitted[1].getValue = editorValue
       /\ emitted[2].getValue = editorValue
       /\ emitted[2].value = editorValue
       /\ \E out \in {ValidityOf(editorValue)} :
              /\ ~out.threw
              /\ emitted[1].isValid = out.isValid
              /\ emitted[2].isValid = out.isValid
              /\ emitted[1].errors = out.parseErrors \o out.editorErrors

\* An edit that changes the value delivers its events, unless _validate
\* throws on the new value
EditEmits ==
    editorValue' # editorValue =>
        \E out \in {ValidityOf(editorValue')} :
            IF out.threw THEN emitted' = <<>> ELSE Len(emitted') = 2

PopupIndexInRange ==
    autocompleteVisible =>
        /\ autocompleteItems # <<>>
        /\ 0 <= autocompleteIndex
        /\ autocompleteIndex < Len(autocompleteItems)

\* The popup is open on its last item of several, the place where
\* ArrowDown has to stop
PopupIndexInRangeWitness ==
    /\ autocompleteVisible
    /\ Len(autocompleteItems) >= 2
    /\ autocompleteIndex = Len(autocompleteItems) - 1

====
